---- MODULE Spec2Model ----
(***************************************************************************)
(* Verification model of boolexpr: the cardinality encoder (at_least,      *)
(* less_than, exactly, expand, AtLeastOp) and the Tseitin encoder.         *)
(*                                                                         *)
(* An expression node is a record [kind, idx, xs]: kind is the exprnode    *)
(* kind tag, idx the signed variable index of a literal (0 otherwise) and  *)
(* xs the operand tuple of an operator (<<>> for an atom).  Nodes are      *)
(* hash-consed: a node's identifier is its structure.                      *)
(***************************************************************************)
EXTENDS Integers, Sequences, FiniteSets, TLC

VARIABLES
    k, nodes, as_cnf,        \* arguments of the cardinality builders / AtLeastOp fields
    op, out, out_flag,       \* the operation applied, its node result, its Boolean result
    out_k, out_nodes,        \* the AtLeastOp returned by simplify
    node, stack, lit_for, constraints, n_new_vars, top_lit, pc,  \* tseitin
    label_to_idx, idx_to_data, idx_offset,   \* Universe fields
    u_call, u_ret,           \* the last Universe call and what it returned
    ASSUMPTIONS, scopes,     \* expr._ASSUMPTIONS and the open with-blocks
    s_call, s_nested,        \* the last scope call; whether every exit closed the innermost block
    fn, fn_args, fn_result   \* a pure function, its arguments and what it returned

universe_vars == <<label_to_idx, idx_to_data, idx_offset, u_call, u_ret>>
scope_vars == <<ASSUMPTIONS, scopes, s_call, s_nested>>
pure_vars == <<fn, fn_args, fn_result>>

vars == <<k, nodes, as_cnf, op, out, out_flag, out_k, out_nodes,
          node, stack, lit_for, constraints, n_new_vars, top_lit, pc,
          universe_vars, scope_vars, pure_vars>>

card_vars == <<k, nodes, as_cnf, op, out, out_flag, out_k, out_nodes>>
tseitin_vars == <<node, stack, lit_for, constraints, n_new_vars, top_lit, pc>>

\* What the cardinality calls and the tseitin loop leave alone besides
\* each other's variables.
rest_vars == <<universe_vars, scope_vars, pure_vars>>

(***************************************************************************)
(* Bounds of the model.                                                    *)
(***************************************************************************)
MaxN == 4          \* at_least/less_than/exactly over x1..xn, n <= MaxN
OpVars == 2        \* variables of the AtLeastOp operand alphabet
MaxOps == 3        \* operands of an AtLeastOp
TsVars == 2        \* variables of the expressions handed to tseitin
MaxVars == 3       \* variables of a Universe
MaxOffset == 2     \* idx_offset of a Universe
ScopeVars == 2     \* variables of the assumption literals
MaxDepth == 2      \* nested with-blocks
NfVars == 2        \* nvars of a NormalForm
MaxClauses == 2    \* clauses of a NormalForm
CnfVars == 3       \* variables of the CNF expressions handed to expr2dimacscnf
MaxCnfClauses == 2 \* clauses of those expressions
ShVars == 2        \* variables of the expressions handed to shannon
MaxVs == 2         \* length of the variable sequence handed to shannon
TrVars == 3        \* variables of the expressions handed to the transforms
IdLen == 2         \* characters of a name, names of a dotted identifier

(***************************************************************************)
(* exprnode: kinds, constants, literals.                                   *)
(***************************************************************************)
ZERO == "ZERO"
ONE == "ONE"
VAR == "VAR"
COMP == "COMP"
OP_NOT == "OP_NOT"
OP_AND == "OP_AND"
OP_OR == "OP_OR"
OP_XOR == "OP_XOR"
OP_EQ == "OP_EQ"
OP_IMPL == "OP_IMPL"
OP_ITE == "OP_ITE"

NODE_LITERALS == {VAR, COMP}
NODE_CONSTANTS == {ZERO, ONE}
NODE_ATOMS == NODE_LITERALS \cup NODE_CONSTANTS
NODE_OPS == {OP_NOT, OP_AND, OP_OR, OP_XOR, OP_EQ, OP_IMPL, OP_ITE}

Zero == [kind |-> ZERO, idx |-> 0, xs |-> <<>>]
One == [kind |-> ONE, idx |-> 0, xs |-> <<>>]

\* lit(+i) is the Var x_i, lit(-i) the Comp ~x_i (data slot -i).
lit(i) == [kind |-> IF i > 0 THEN VAR ELSE COMP, idx |-> i, xs |-> <<>>]

\* An operator node over an already canonical operand tuple.
OpNode(kind, xs) == [kind |-> kind, idx |-> 0, xs |-> xs]

Range(s) == {s[i] : i \in 1..Len(s)}

Abs(i) == IF i < 0 THEN -i ELSE i

\* The canonical operand order of an n-ary operator: a fixed total order on
\* nodes (the arena sorts by identifier), duplicates already removed.
RECURSIVE SetToSeq(_)
SetToSeq(S) ==
    IF S = {} THEN <<>>
    ELSE LET x == CHOOSE y \in S : TRUE IN <<x>> \o SetToSeq(S \ {x})

\* The operands of xs with nested operators of the same kind flattened.
RECURSIVE FlattenSeq(_, _)
FlattenSeq(kind, xs) ==
    IF xs = <<>> THEN <<>>
    ELSE (IF Head(xs).kind = kind THEN Head(xs).xs ELSE <<Head(xs)>>)
         \o FlattenSeq(kind, Tail(xs))

\* Not: constants fold, literals complement, Not(Not(x)) -> x.
not_(x) ==
    CASE x.kind = ONE -> Zero
      [] x.kind = ZERO -> One
      [] x.kind \in NODE_LITERALS -> lit(-x.idx)
      [] x.kind = OP_NOT -> x.xs[1]
      [] OTHER -> OpNode(OP_NOT, <<x>>)

\* And: drop One; Zero if any Zero or both x and Not(x); flatten; deduplicate.
and_(xs) ==
    LET S == Range(FlattenSeq(OP_AND, xs)) \ {One} IN
    IF Zero \in S \/ \E x \in S : not_(x) \in S THEN Zero
    ELSE IF S = {} THEN One
    ELSE IF Cardinality(S) = 1 THEN CHOOSE x \in S : TRUE
    ELSE OpNode(OP_AND, SetToSeq(S))

\* Or: the dual of And.
or_(xs) ==
    LET S == Range(FlattenSeq(OP_OR, xs)) \ {Zero} IN
    IF One \in S \/ \E x \in S : not_(x) \in S THEN One
    ELSE IF S = {} THEN Zero
    ELSE IF Cardinality(S) = 1 THEN CHOOSE x \in S : TRUE
    ELSE OpNode(OP_OR, SetToSeq(S))

\* Number of occurrences of x in the sequence s.
RECURSIVE Count(_, _)
Count(x, s) ==
    IF s = <<>> THEN 0
    ELSE (IF Head(s) = x THEN 1 ELSE 0) + Count(x, Tail(s))

\* Xor: flatten; Zero drops, One flips the parity; equal pairs cancel.
xor(xs) ==
    LET flat == FlattenSeq(OP_XOR, xs)
        flip == Count(One, flat) % 2 = 1
        S == {x \in Range(flat) \ {Zero, One} : Count(x, flat) % 2 = 1}
        base == IF S = {} THEN Zero
                ELSE IF Cardinality(S) = 1 THEN CHOOSE x \in S : TRUE
                ELSE OpNode(OP_XOR, SetToSeq(S))
    IN IF flip THEN not_(base) ELSE base

\* Eq (all equal): fewer than two operands -> One; a constant operand forces
\* every operand to it; two operands -> Not(Xor); otherwise kept n-ary.
eq(xs) ==
    LET S == Range(xs) IN
    IF One \in S /\ Zero \in S THEN Zero
    ELSE IF One \in S THEN and_(SetToSeq(S \ {One}))
    ELSE IF Zero \in S THEN and_(SetToSeq({not_(x) : x \in S \ {Zero}}))
    ELSE IF \E x \in S : not_(x) \in S THEN Zero
    ELSE IF Cardinality(S) <= 1 THEN One
    ELSE IF Cardinality(S) = 2 THEN not_(xor(SetToSeq(S)))
    ELSE OpNode(OP_EQ, SetToSeq(S))

\* Impl(p, q).
impl(p, q) ==
    IF p = Zero \/ q = One \/ p = q THEN One
    ELSE IF p = One THEN q
    ELSE IF q = Zero THEN not_(p)
    ELSE OpNode(OP_IMPL, <<p, q>>)

\* Ite(s, d1, d0).
RECURSIVE ite(_, _, _)
ite(s, d1, d0) ==
    IF s = One THEN d1
    ELSE IF s = Zero THEN d0
    ELSE IF d1 = d0 THEN d1
    ELSE IF d1 = One /\ d0 = Zero THEN s
    ELSE IF d1 = Zero /\ d0 = One THEN not_(s)
    ELSE IF s.kind \in {OP_NOT, COMP} THEN ite(not_(s), d0, d1)
    ELSE OpNode(OP_ITE, <<s, d1, d0>>)

\* NODE_OP_TO_BUILDER[kind](*xs)
Build(kind, xs) ==
    CASE kind = OP_NOT -> not_(xs[1])
      [] kind = OP_AND -> and_(xs)
      [] kind = OP_OR -> or_(xs)
      [] kind = OP_XOR -> xor(xs)
      [] kind = OP_EQ -> eq(xs)
      [] kind = OP_IMPL -> impl(xs[1], xs[2])
      [] kind = OP_ITE -> ite(xs[1], xs[2], xs[3])

(***************************************************************************)
(* Semantics: the truth value of a node under an assignment asg (a         *)
(* function from variable indices to BOOLEAN).                             *)
(***************************************************************************)
RECURSIVE Eval(_, _)
Eval(n, asg) ==
    CASE n.kind = ZERO -> FALSE
      [] n.kind = ONE -> TRUE
      [] n.kind = VAR -> asg[n.idx]
      [] n.kind = COMP -> ~asg[-n.idx]
      [] n.kind = OP_NOT -> ~Eval(n.xs[1], asg)
      [] n.kind = OP_AND -> \A i \in 1..Len(n.xs) : Eval(n.xs[i], asg)
      [] n.kind = OP_OR -> \E i \in 1..Len(n.xs) : Eval(n.xs[i], asg)
      [] n.kind = OP_XOR ->
            Cardinality({i \in 1..Len(n.xs) : Eval(n.xs[i], asg)}) % 2 = 1
      [] n.kind = OP_EQ ->
            \/ \A i \in 1..Len(n.xs) : Eval(n.xs[i], asg)
            \/ \A i \in 1..Len(n.xs) : ~Eval(n.xs[i], asg)
      [] n.kind = OP_IMPL -> (Eval(n.xs[1], asg) => Eval(n.xs[2], asg))
      [] n.kind = OP_ITE ->
            IF Eval(n.xs[1], asg) THEN Eval(n.xs[2], asg) ELSE Eval(n.xs[3], asg)

(***************************************************************************)
(* exprnode transforms used by the encoders: restrict, simplify, to_cnf.   *)
(***************************************************************************)
\* restrict: mapping is a function from Var nodes to constants; a literal of
\* a mapped variable is replaced (with its polarity), operators are rebuilt.
RECURSIVE restrict(_, _)
restrict(n, mapping) ==
    CASE n.kind = VAR -> IF n \in DOMAIN mapping THEN mapping[n] ELSE n
      [] n.kind = COMP ->
            IF lit(-n.idx) \in DOMAIN mapping THEN not_(mapping[lit(-n.idx)]) ELSE n
      [] n.kind \in NODE_CONSTANTS -> n
      [] OTHER -> Build(n.kind, [i \in 1..Len(n.xs) |-> restrict(n.xs[i], mapping)])

\* simplify: the constructor reductions reapplied bottom-up.
RECURSIVE simplify(_)
simplify(n) ==
    IF n.kind \in NODE_ATOMS THEN n
    ELSE Build(n.kind, [i \in 1..Len(n.xs) |-> simplify(n.xs[i])])

\* to_nnf of n (neg = FALSE) or of Not(n) (neg = TRUE): Impl, Ite, Eq and Xor
\* eliminated, negations pushed to the literals.
RECURSIVE Nnf(_, _), NnfXor(_, _)
Nnf(n, neg) ==
    CASE n.kind \in NODE_ATOMS -> IF neg THEN not_(n) ELSE n
      [] n.kind = OP_NOT -> Nnf(n.xs[1], ~neg)
      [] n.kind = OP_AND ->
            IF neg THEN or_([i \in 1..Len(n.xs) |-> Nnf(n.xs[i], TRUE)])
            ELSE and_([i \in 1..Len(n.xs) |-> Nnf(n.xs[i], FALSE)])
      [] n.kind = OP_OR ->
            IF neg THEN and_([i \in 1..Len(n.xs) |-> Nnf(n.xs[i], TRUE)])
            ELSE or_([i \in 1..Len(n.xs) |-> Nnf(n.xs[i], FALSE)])
      [] n.kind = OP_XOR -> NnfXor(n.xs, neg)
      [] n.kind = OP_EQ ->
            IF neg
            THEN and_(<<or_([i \in 1..Len(n.xs) |-> Nnf(n.xs[i], FALSE)]),
                        or_([i \in 1..Len(n.xs) |-> Nnf(n.xs[i], TRUE)])>>)
            ELSE or_(<<and_([i \in 1..Len(n.xs) |-> Nnf(n.xs[i], FALSE)]),
                       and_([i \in 1..Len(n.xs) |-> Nnf(n.xs[i], TRUE)])>>)
      [] n.kind = OP_IMPL ->
            IF neg THEN and_(<<Nnf(n.xs[1], FALSE), Nnf(n.xs[2], TRUE)>>)
            ELSE or_(<<Nnf(n.xs[1], TRUE), Nnf(n.xs[2], FALSE)>>)
      [] n.kind = OP_ITE ->
            or_(<<and_(<<Nnf(n.xs[1], FALSE), Nnf(n.xs[2], neg)>>),
                  and_(<<Nnf(n.xs[1], TRUE), Nnf(n.xs[3], neg)>>)>>)
NnfXor(xs, neg) ==
    IF Len(xs) = 1 THEN Nnf(xs[1], neg)
    ELSE or_(<<and_(<<Nnf(xs[1], FALSE), NnfXor(Tail(xs), ~neg)>>),
               and_(<<Nnf(xs[1], TRUE), NnfXor(Tail(xs), neg)>>)>>)

to_nnf(n) == Nnf(n, FALSE)

\* Absorption on a set of clauses (sets of signed indices): a clause that
\* contains another one is dropped.
Absorb(C) == {c \in C : ~\E d \in C : d # c /\ d \subseteq c}

\* One distribution step of Or over And, tautological clauses dropped,
\* followed by absorption.
Distribute(A, B) ==
    Absorb({c \in {a \cup b : a \in A, b \in B} : ~\E i \in c : -i \in c})

\* The clause set of an NNF node: And unites, Or distributes.
RECURSIVE CnfClauses(_), CnfOr(_)
CnfClauses(n) ==
    CASE n.kind = ONE -> {}
      [] n.kind = ZERO -> {{}}
      [] n.kind \in NODE_LITERALS -> {{n.idx}}
      [] n.kind = OP_AND -> Absorb(UNION {CnfClauses(n.xs[i]) : i \in 1..Len(n.xs)})
      [] n.kind = OP_OR -> CnfOr(n.xs)
CnfOr(xs) ==
    IF xs = <<>> THEN {{}}
    ELSE Distribute(CnfClauses(Head(xs)), CnfOr(Tail(xs)))

\* to_cnf: a flat And of Ors of literals.
to_cnf(n) ==
    and_(SetToSeq({or_(SetToSeq({lit(i) : i \in c})) : c \in CnfClauses(to_nnf(n))}))

(***************************************************************************)
(* Points (point.py, math.py).                                             *)
(***************************************************************************)
RECURSIVE Pow2(_)
Pow2(n) == IF n = 0 THEN 1 ELSE 2 * Pow2(n - 1)

bit_on(num, bit) == (num \div Pow2(bit)) % 2 = 1

\* A num2point that reads num big-endian: vs[0] gets the highest bit.
num2point_BigEndian(num, vs) ==
    [v \in Range(vs) |->
        bit_on(num % Pow2(Len(vs)),
               Len(vs) - (CHOOSE i \in 1..Len(vs) :
                    vs[i] = v /\ \A j \in 1..Len(vs) : vs[j] = v => j <= i))]

\* {v: bit_on(num, i) for i, v in enumerate(vs)}: a key that occurs twice in
\* vs keeps the value of its last position.  Positions are 0-based in the
\* code, vs[i + 1] here.
num2point(num, vs) ==
    [v \in Range(vs) |->
        bit_on(num % Pow2(Len(vs)),
               (CHOOSE i \in 1..Len(vs) :
                    vs[i] = v /\ \A j \in 1..Len(vs) : vs[j] = v => j <= i) - 1)]

\* The points of vs in the order num = 0 .. 2^N - 1.
iter_points(vs) == [j \in 1..Pow2(Len(vs)) |-> num2point(j - 1, vs)]

(***************************************************************************)
(* expression/node/cardinality.py                                          *)
(***************************************************************************)
\* itertools.combinations(s, r): the r-length subsequences, lexicographic
\* by position.
RECURSIVE combinations(_, _)
combinations(s, r) ==
    IF r = 0 THEN <<<<>>>>
    ELSE IF Len(s) < r THEN <<>>
    ELSE LET with == combinations(Tail(s), r - 1)
         IN [i \in 1..Len(with) |-> <<Head(s)>> \o with[i]]
            \o combinations(Tail(s), r)

IsConst(n) == n.kind \in NODE_CONSTANTS

\* A remove_constants that lowers k for the Zero operands instead of the One.
remove_constants_CountsZero(ns) ==
    [delta_k |-> -Cardinality({i \in 1..Len(ns) : ns[i].kind = ZERO}),
     left |-> SelectSeq(ns, LAMBDA n : ~IsConst(n))]

\* remove_constants: (delta_k, left).
remove_constants(ns) ==
    [delta_k |-> -Cardinality({i \in 1..Len(ns) : ns[i].kind = ONE}),
     left |-> SelectSeq(ns, LAMBDA n : ~IsConst(n))]

get_identifier(n) == Abs(n.idx)

\* The sequence s without repetitions, in order of first occurrence.
RECURSIVE FirstOccurrences(_)
FirstOccurrences(s) ==
    IF s = <<>> THEN <<>>
    ELSE LET init == FirstOccurrences(SubSeq(s, 1, Len(s) - 1))
         IN IF s[Len(s)] \in Range(init) THEN init ELSE Append(init, s[Len(s)])

\* iter_duplicate_input_variables: lit(idx) for every variable that occurs,
\* in either polarity, in more than one literal operand.
iter_duplicate_input_variables(ns) ==
    LET lits == SelectSeq(ns, LAMBDA n : n.kind \in NODE_LITERALS)
        ids == [i \in 1..Len(lits) |-> get_identifier(lits[i])]
        dup == SelectSeq(FirstOccurrences(ids), LAMBDA v : Count(v, ids) > 1)
    IN [i \in 1..Len(dup) |-> lit(dup[i])]

\* An at_least whose clauses and cubes are one operand short.
at_least_OffByOne(kk, ns, cnf) ==
    LET num_nodes == Len(ns) IN
    IF kk <= 0 THEN One
    ELSE IF kk = 1 THEN or_(ns)
    ELSE IF kk = num_nodes THEN and_(ns)
    ELSE IF kk > num_nodes THEN Zero
    ELSE IF cnf
         THEN LET cs == combinations(ns, num_nodes - kk)
              IN and_([i \in 1..Len(cs) |-> or_(cs[i])])
         ELSE LET cs == combinations(ns, kk - 1)
              IN or_([i \in 1..Len(cs) |-> and_(cs[i])])

at_least(kk, ns, cnf) ==
    LET num_nodes == Len(ns) IN
    IF kk <= 0 THEN One
    ELSE IF kk = 1 THEN or_(ns)
    ELSE IF kk = num_nodes THEN and_(ns)
    ELSE IF kk > num_nodes THEN Zero
    ELSE IF cnf
         THEN LET cs == combinations(ns, num_nodes - kk + 1)
              IN and_([i \in 1..Len(cs) |-> or_(cs[i])])
         ELSE LET cs == combinations(ns, kk)
              IN or_([i \in 1..Len(cs) |-> and_(cs[i])])

\* A less_than with the subset sizes of its two forms exchanged.
less_than_SwappedSizes(kk, ns, cnf) ==
    LET num_nodes == Len(ns)
        negated_nodes == [i \in 1..Len(ns) |-> not_(ns[i])]
    IN
    IF kk <= 0 THEN Zero
    ELSE IF kk = 1 THEN and_(negated_nodes)
    ELSE IF kk = num_nodes THEN or_(negated_nodes)
    ELSE IF kk > num_nodes THEN One
    ELSE IF cnf
         THEN LET cs == combinations(negated_nodes, num_nodes - kk + 1)
              IN and_([i \in 1..Len(cs) |-> or_(cs[i])])
         ELSE LET cs == combinations(negated_nodes, kk)
              IN or_([i \in 1..Len(cs) |-> and_(cs[i])])

less_than(kk, ns, cnf) ==
    LET num_nodes == Len(ns)
        negated_nodes == [i \in 1..Len(ns) |-> not_(ns[i])]
    IN
    IF kk <= 0 THEN Zero
    ELSE IF kk = 1 THEN and_(negated_nodes)
    ELSE IF kk = num_nodes THEN or_(negated_nodes)
    ELSE IF kk > num_nodes THEN One
    ELSE IF cnf
         THEN LET cs == combinations(negated_nodes, kk)
              IN and_([i \in 1..Len(cs) |-> or_(cs[i])])
         ELSE LET cs == combinations(negated_nodes, num_nodes - kk + 1)
              IN or_([i \in 1..Len(cs) |-> and_(cs[i])])

exactly(kk, ns, cnf) == and_(<<at_least(kk, ns, cnf), less_than(kk + 1, ns, cnf)>>)

\* One term of expand: the cofactor of the operand list at point, handed to
\* the builder (at_least), conjoined with the keys of the point.
ExpandTerm(kk, ns, cnf, point) ==
    LET mapping == [v \in DOMAIN point |-> IF point[v] THEN One ELSE Zero]
        rc == remove_constants([i \in 1..Len(ns) |-> restrict(ns[i], mapping)])
        cofactor == at_least(kk + rc.delta_k, rc.left, cnf)
    IN and_(SetToSeq(DOMAIN point) \o <<cofactor>>)

\* expand(k, at_least, *nodes, as_cnf): both branches end in to_cnf().
expand(kk, ns, cnf) ==
    LET decidable == iter_duplicate_input_variables(ns)
        points == iter_points(decidable)
        terms == [j \in 1..Len(points) |-> ExpandTerm(kk, ns, cnf, points[j])]
    IN IF cnf THEN to_cnf(simplify(or_(terms)))
       ELSE to_cnf(simplify(or_(terms)))

(***************************************************************************)
(* expression/cardinality.py: AtLeastOp(k, nodes).                         *)
(***************************************************************************)
\* node.kind() == exprnode.One compares the integer kind tag with a node
\* object (the tag is exprnode.ONE): an int never equals an ExprNode.
KindEqualsNode(kind, n) == FALSE

is_tautology(kk, ns) ==
    kk <= 0 \/ kk <= Cardinality({i \in 1..Len(ns) : KindEqualsNode(ns[i].kind, One)})

is_contradiction(kk, ns) ==
    kk > Len(ns) \/ kk <= Cardinality({i \in 1..Len(ns) : KindEqualsNode(ns[i].kind, Zero)})

\* AtLeastOp.simplify: the AtLeastOp (k + delta_k, new_xs).
AtLeastOp_simplify(kk, ns) ==
    LET rc == remove_constants([i \in 1..Len(ns) |-> simplify(ns[i])])
    IN [k |-> kk + rc.delta_k, nodes |-> rc.left]

\* SimpleExpression.from_node(node, simplify=True).node
from_node(n) == simplify(n)

AtLeastOp_to_cnf(kk, ns) == from_node(expand(kk, ns, TRUE))

AtLeastOp_to_dnf(kk, ns) == from_node(expand(kk, ns, FALSE))

(***************************************************************************)
(* The cardinality builders applied to x1..xn (specification SpecCard) and *)
(* the AtLeastOp operations applied to operand lists of literals and       *)
(* constants (specification SpecOp).  op names the call that produced      *)
(* the outputs; "init" is the state before the call.                       *)
(***************************************************************************)
NoNode == [kind |-> "NONE", idx |-> 0, xs |-> <<>>]

\* A Variable: label, idx and the literal pair (exprnode.lit(-idx), exprnode.lit(idx)).
Variable(label, idx) ==
    [label |-> label, idx |-> idx, literals |-> <<lit(-idx), lit(idx)>>]

\* VariableIdentifier(prefix, indices); a name is the tuple of its characters.
VariableIdentifier(prefix, indices) == [names |-> prefix, indices |-> indices]

NoLabel == VariableIdentifier(<<>>, <<>>)

NoVariable == [label |-> NoLabel, idx |-> 0, literals |-> <<NoNode, NoNode>>]

\* The outcome of a list subscript out of range.
IndexError == [label |-> NoLabel, idx |-> -1, literals |-> <<NoNode, NoNode>>]

\* No Universe call made yet; before is idx_to_data as the call found it.
NoCall == [name |-> "none", label |-> NoLabel, arg |-> 0, before |-> <<>>]

UniverseIdle ==
    /\ label_to_idx = <<>> /\ idx_to_data = <<>> /\ idx_offset = 1
    /\ u_call = NoCall /\ u_ret = NoVariable

\* No scope call made yet.
NoScopeCall == [name |-> "none", expr |-> NoNode, raised |-> FALSE, before |-> {}]

ScopeIdle ==
    /\ ASSUMPTIONS = {} /\ scopes = <<>> /\ s_call = NoScopeCall /\ s_nested = TRUE

PureIdle == fn = "none" /\ fn_args = <<>> /\ fn_result = <<>>

\* The variables of the specifications other than the one at hand.
RestIdle == UniverseIdle /\ ScopeIdle /\ PureIdle

TseitinIdle ==
    /\ node = NoNode /\ stack = <<>> /\ lit_for = <<>> /\ constraints = <<>>
    /\ n_new_vars = 0 /\ top_lit = NoNode /\ pc = "idle"

\* Neither a cardinality call nor tseitin is under way.
EncodersIdle ==
    /\ k = 0 /\ nodes = <<>> /\ as_cnf = FALSE /\ op = "idle"
    /\ out = NoNode /\ out_flag = FALSE /\ out_k = 0 /\ out_nodes = <<>>
    /\ TseitinIdle

NoOutput == out = NoNode /\ out_flag = FALSE /\ out_k = 0 /\ out_nodes = <<>>

\* x1..xn
Xs(n) == [i \in 1..n |-> lit(i)]

InitCard ==
    /\ k \in -1..(MaxN + 1)
    /\ nodes \in {Xs(n) : n \in 0..MaxN}
    /\ as_cnf \in BOOLEAN
    /\ op = "init" /\ NoOutput
    /\ TseitinIdle
    /\ RestIdle

\* The operands of an AtLeastOp: the literals of x1..xOpVars, the constants
\* and one operator node.
Operands ==
    {lit(i) : i \in 1..OpVars} \cup {lit(-i) : i \in 1..OpVars}
        \cup {Zero, One, or_(<<lit(1), lit(-OpVars)>>)}

InitOp ==
    /\ k \in -1..(MaxOps + 1)
    /\ nodes \in UNION {[1..n -> Operands] : n \in 0..MaxOps}
    /\ as_cnf \in BOOLEAN
    /\ op = "init" /\ NoOutput
    /\ TseitinIdle
    /\ RestIdle

Returns(name, n) ==
    /\ op = "init"
    /\ op' = name
    /\ out' = n
    /\ UNCHANGED <<k, nodes, as_cnf, out_flag, out_k, out_nodes>>
    /\ UNCHANGED <<tseitin_vars, rest_vars>>

ReturnsFlag(name, b) ==
    /\ op = "init"
    /\ op' = name
    /\ out_flag' = b
    /\ UNCHANGED <<k, nodes, as_cnf, out, out_k, out_nodes>>
    /\ UNCHANGED <<tseitin_vars, rest_vars>>

CallAtLeast == Returns("at_least", at_least(k, nodes, as_cnf))

CallLessThan == Returns("less_than", less_than(k, nodes, as_cnf))

CallExactly == Returns("exactly", exactly(k, nodes, as_cnf))

CallExpand == Returns("expand", expand(k, nodes, as_cnf))

CallToCnf == Returns("to_cnf", AtLeastOp_to_cnf(k, nodes))

CallToDnf == Returns("to_dnf", AtLeastOp_to_dnf(k, nodes))

CallIsTautology == ReturnsFlag("is_tautology", is_tautology(k, nodes))

CallIsContradiction == ReturnsFlag("is_contradiction", is_contradiction(k, nodes))

CallSimplify ==
    /\ op = "init"
    /\ op' = "simplify"
    /\ out_k' = AtLeastOp_simplify(k, nodes).k
    /\ out_nodes' = AtLeastOp_simplify(k, nodes).nodes
    /\ UNCHANGED <<k, nodes, as_cnf, out, out_flag>>
    /\ UNCHANGED <<tseitin_vars, rest_vars>>

NextCard ==
    \/ CallAtLeast
    \/ CallLessThan
    \/ CallExactly
    \/ CallToCnf
    \/ CallToDnf

NextOp ==
    \/ CallExpand
    \/ CallIsTautology
    \/ CallIsContradiction
    \/ CallSimplify

SpecCard == InitCard /\ [][NextCard]_vars

SpecOp == InitOp /\ [][NextOp]_vars

(***************************************************************************)
(* expression/node/transform.py: tseitin(node, get_new_var), one action    *)
(* per pass through the explicit-stack loop (specification SpecTseitin).   *)
(* lit_for maps a node identifier (the node) to its auxiliary literal.     *)
(***************************************************************************)
\* The atoms the expressions handed to tseitin are built from.
TsAtoms == {lit(i) : i \in 1..TsVars}

\* The argument tuples a builder of the given kind takes.
Arity(kind) ==
    CASE kind = OP_NOT -> {1}
      [] kind = OP_IMPL -> {2}
      [] kind = OP_ITE -> {3}
      [] kind = OP_EQ -> {2, 3}
      [] OTHER -> {2}

\* Every expression one builder call makes from operands in S.
OpsOver(S) ==
    UNION {UNION {{Build(kind, args) : args \in [1..a -> S]} : a \in Arity(kind)} :
              kind \in NODE_OPS}

\* The operands of the root's builder call: the atoms and the expressions
\* one builder call makes from them (constants and complemented literals
\* arise from the builders' reductions).
TsOperands == OpsOver(TsAtoms) \cup TsAtoms

\* tseitin is handed an expression made by two rounds of builder calls, or
\* by a third call over an expression x and an expression that contains x
\* (a subnode reached from the root along several paths of different length).
InitTseitin ==
    /\ \/ \E kind \in NODE_OPS :
             \E a \in Arity(kind) :
                 \E args \in [1..a -> TsOperands] : node = Build(kind, args)
       \/ \E x \in OpsOver(TsAtoms), c \in TsAtoms :
             \E inner \in NODE_OPS \ {OP_NOT, OP_ITE}, kind \in NODE_OPS :
                 \E a \in Arity(kind) :
                     \E args \in [1..a -> {x, Build(inner, <<x, c>>)}] :
                         node = Build(kind, args)
    /\ stack = <<>> /\ lit_for = <<>> /\ constraints = <<>>
    /\ n_new_vars = 0 /\ top_lit = NoNode /\ pc = "start"
    /\ k = 0 /\ nodes = <<>> /\ as_cnf = FALSE /\ op = "idle" /\ NoOutput
    /\ RestIdle

\* get_new_var(): the factory's next variable, outside x1..xTsVars and
\* different from every variable it returned before.
get_new_var(n) == lit(TsVars + n + 1)

Frame(curr, visited) == [curr |-> curr, visited |-> visited]

\* Whether curr.id() is in lit_for.
InLitFor(curr, lf) == curr \in DOMAIN lf

\* `elif curr.id() not in lit_for` taken for every visited frame.
IsNew_Always(curr, lf) == TRUE

\* elif curr.id() not in lit_for
IsNew(curr, lf) == ~InLitFor(curr, lf)

\* A push that leaves the visited frame above the frames of its operands.
PushFrames_ParentOnTop(st, curr, lf) ==
    LET pending == SelectSeq(curr.xs,
                        LAMBDA operand : operand.kind \in NODE_OPS /\ ~InLitFor(operand, lf))
    IN (st \o [i \in 1..Len(pending) |-> Frame(pending[i], FALSE)])
       \o <<Frame(curr, TRUE)>>

\* A push that puts curr back as not visited.
PushFrames_Unmarked(st, curr, lf) == Append(st, Frame(curr, FALSE))

\* stack.append((curr, True)); stack.extend((operand, False) for operand in
\* operands if operand.kind() in NODE_OPS and operand.id() not in lit_for)
PushFrames(st, curr, lf) ==
    LET pending == SelectSeq(curr.xs,
                        LAMBDA operand : operand.kind \in NODE_OPS /\ ~InLitFor(operand, lf))
    IN Append(st, Frame(curr, TRUE))
       \o [i \in 1..Len(pending) |-> Frame(pending[i], FALSE)]

\* A constraint built over the operands in reverse order.
TseitinConstraint_Reversed(curr, lf) ==
    Build(curr.kind,
          [i \in 1..Len(curr.xs) |->
              LET c == curr.xs[Len(curr.xs) + 1 - i]
              IN IF InLitFor(c, lf) THEN lf[c] ELSE c])

\* builder(*(lit_for.get(c.id(), c) for c in operands))
TseitinConstraint(curr, lf) ==
    Build(curr.kind,
          [i \in 1..Len(curr.xs) |->
              IF InLitFor(curr.xs[i], lf) THEN lf[curr.xs[i]] ELSE curr.xs[i]])

\* if node.kind() in NODE_ATOMS: return node, []
TseitinAtom ==
    /\ pc = "start"
    /\ node.kind \in NODE_ATOMS
    /\ top_lit' = node
    /\ pc' = "done"
    /\ UNCHANGED <<node, stack, lit_for, constraints, n_new_vars>>
    /\ UNCHANGED <<card_vars, rest_vars>>

\* constraints = []; lit_for = {}; stack = [(node, False)]
TseitinBegin ==
    /\ pc = "start"
    /\ node.kind \notin NODE_ATOMS
    /\ stack' = <<Frame(node, FALSE)>>
    /\ pc' = "loop"
    /\ UNCHANGED <<node, lit_for, constraints, n_new_vars, top_lit>>
    /\ UNCHANGED <<card_vars, rest_vars>>

\* One pass of `while stack`, curr not visited: push it back with its operands.
TseitinPush ==
    /\ pc = "loop" /\ stack # <<>>
    /\ LET top == stack[Len(stack)]
           rest == SubSeq(stack, 1, Len(stack) - 1)
       IN /\ ~top.visited
          /\ stack' = PushFrames(rest, top.curr, lit_for)
    /\ UNCHANGED <<node, lit_for, constraints, n_new_vars, top_lit, pc>>
    /\ UNCHANGED <<card_vars, rest_vars>>

\* One pass, curr visited and not in lit_for: a new variable and constraint.
TseitinEmit ==
    /\ pc = "loop" /\ stack # <<>>
    /\ LET top == stack[Len(stack)]
           rest == SubSeq(stack, 1, Len(stack) - 1)
           new_var == get_new_var(n_new_vars)
       IN /\ top.visited
          /\ IsNew(top.curr, lit_for)
          /\ stack' = rest
          /\ constraints' = Append(constraints, <<new_var, TseitinConstraint(top.curr, lit_for)>>)
          /\ lit_for' = (top.curr :> new_var) @@ lit_for
          /\ n_new_vars' = n_new_vars + 1
    /\ UNCHANGED <<node, top_lit, pc>>
    /\ UNCHANGED <<card_vars, rest_vars>>

\* One pass, curr visited and already in lit_for: nothing but the pop.
TseitinSkip ==
    /\ pc = "loop" /\ stack # <<>>
    /\ LET top == stack[Len(stack)]
           rest == SubSeq(stack, 1, Len(stack) - 1)
       IN /\ top.visited
          /\ ~IsNew(top.curr, lit_for)
          /\ stack' = rest
    /\ UNCHANGED <<node, lit_for, constraints, n_new_vars, top_lit, pc>>
    /\ UNCHANGED <<card_vars, rest_vars>>

\* return lit_for[node.id()], constraints
TseitinReturn ==
    /\ pc = "loop" /\ stack = <<>>
    /\ top_lit' = lit_for[node]
    /\ pc' = "done"
    /\ UNCHANGED <<node, stack, lit_for, constraints, n_new_vars>>
    /\ UNCHANGED <<card_vars, rest_vars>>

NextTseitin ==
    \/ TseitinAtom
    \/ TseitinBegin
    \/ TseitinPush
    \/ TseitinEmit
    \/ TseitinSkip
    \/ TseitinReturn

SpecTseitin == InitTseitin /\ [][NextTseitin]_vars

(***************************************************************************)
(* Assignments and operand counts used by the properties.                  *)
(***************************************************************************)
Assignments(n) == [1..n -> BOOLEAN]

\* Number of operands of ns that are true under asg.
NumTrue(ns, asg) == Cardinality({i \in 1..Len(ns) : Eval(ns[i], asg)})

\* math.comb(n, r)
RECURSIVE comb(_, _)
comb(n, r) ==
    IF r < 0 \/ r > n THEN 0
    ELSE IF r = 0 THEN 1
    ELSE comb(n - 1, r - 1) + comb(n - 1, r)

\* The operand list consists of pairwise distinct variables.
DistinctVariables(ns) ==
    /\ \A i \in 1..Len(ns) : ns[i].kind = VAR
    /\ \A i, j \in 1..Len(ns) : i # j => ns[i] # ns[j]

\* Some variable occurs, in either polarity, in more than one literal operand.
SharesVariable(ns) ==
    \E i, j \in 1..Len(ns) :
        /\ i # j
        /\ ns[i].kind \in NODE_LITERALS /\ ns[j].kind \in NODE_LITERALS
        /\ get_identifier(ns[i]) = get_identifier(ns[j])

\* n is an operator of the given kind over exactly count operands, each an
\* operator of kind inner over exactly width of the operands ns.
TwoLevel(n, outer, count, inner, width, ns) ==
    /\ n.kind = outer
    /\ Len(n.xs) = count
    /\ \A i \in 1..Len(n.xs) :
        /\ n.xs[i].kind = inner
        /\ Len(n.xs[i].xs) = width
        /\ Range(n.xs[i].xs) \subseteq Range(ns)

(***************************************************************************)
(* Properties of the cardinality encoder.                                  *)
(***************************************************************************)

\* C1: at_least(k, x1..xn, as_cnf) is true under an assignment exactly when
\* at least k of the operands are true, for every k, n and both forms; the
\* edge forms are One (k <= 0), Zero (k > n), an Or over the operands (k = 1)
\* and an And over the operands (k = n).
C1_AtLeastSemantics ==
    op = "at_least" =>
        /\ \A asg \in Assignments(Len(nodes)) :
                Eval(out, asg) <=> (NumTrue(nodes, asg) >= k)
        /\ k <= 0 => out = One
        /\ k > Len(nodes) /\ k >= 1 => out = Zero
        /\ k = 1 /\ Len(nodes) >= 2 =>
                out.kind = OP_OR /\ Range(out.xs) = Range(nodes)
        /\ k = Len(nodes) /\ k >= 2 =>
                out.kind = OP_AND /\ Range(out.xs) = Range(nodes)

C1_Witness ==
    /\ op = "at_least" /\ as_cnf
    /\ 1 < k /\ k < Len(nodes)
    /\ out.kind = OP_AND

\* C2: when a variable occurs in more than one literal operand, the
\* expression returned by expand(k, at_least, operands, as_cnf) is true
\* exactly when at least k of the original operands are true.
C2_ExpandSemantics ==
    (op = "expand" /\ SharesVariable(nodes)) =>
        \A asg \in Assignments(OpVars) :
            Eval(out, asg) <=> (NumTrue(nodes, asg) >= k)

\* C3: for n distinct variables and 1 < k < n, to_cnf is an And of exactly
\* C(n, n-k+1) clauses, each an Or of n-k+1 operands, and to_dnf is an Or of
\* exactly C(n, k) cubes, each an And of k operands.
C3_NormalFormShape ==
    (DistinctVariables(nodes) /\ 1 < k /\ k < Len(nodes)) =>
        /\ op = "to_cnf" =>
             TwoLevel(out, OP_AND, comb(Len(nodes), Len(nodes) - k + 1),
                      OP_OR, Len(nodes) - k + 1, nodes)
        /\ op = "to_dnf" =>
             TwoLevel(out, OP_OR, comb(Len(nodes), k), OP_AND, k, nodes)

\* C4: is_tautology is true if and only if k <= 0 or k <= the number of
\* operands that are the constant One.
C4_IsTautology ==
    op = "is_tautology" =>
        (out_flag <=>
            (k <= 0 \/ k <= Cardinality({i \in 1..Len(nodes) : nodes[i] = One})))

\* C5: is_contradiction is true if and only if k > n or
\* (n minus the number of Zero operands) < k.
C5_IsContradiction ==
    op = "is_contradiction" =>
        (out_flag <=>
            \/ k > Len(nodes)
            \/ Len(nodes) - Cardinality({i \in 1..Len(nodes) : nodes[i] = Zero}) < k)

\* C6: simplify returns an AtLeastOp without Zero and One operands, the other
\* operands in their original order, k lowered by the number of One
\* operands, true under every assignment exactly when the original is.
C6_Simplify ==
    op = "simplify" =>
        /\ \A i \in 1..Len(out_nodes) : out_nodes[i] \notin {Zero, One}
        /\ out_nodes = SelectSeq(nodes, LAMBDA n : n \notin {Zero, One})
        /\ out_k = k - Cardinality({i \in 1..Len(nodes) : nodes[i] = One})
        /\ \A asg \in Assignments(OpVars) :
                (NumTrue(out_nodes, asg) >= out_k) <=> (NumTrue(nodes, asg) >= k)

C6_Witness ==
    /\ op = "simplify"
    /\ \E i, j, l \in 1..Len(nodes) :
            nodes[i] = One /\ nodes[j] = Zero /\ nodes[l].kind \in NODE_LITERALS
    /\ out_k = k - 1 /\ Len(out_nodes) = 1

\* C7: less_than(k, x1..xn) is true exactly when fewer than k operands are
\* true, i.e. it is the negation of at_least(k, x1..xn); exactly(k, x1..xn)
\* is true exactly when precisely k operands are true.
C7_LessThanExactly ==
    /\ op = "less_than" =>
        \A asg \in Assignments(Len(nodes)) :
            /\ Eval(out, asg) <=> (NumTrue(nodes, asg) < k)
            /\ Eval(out, asg) <=> ~Eval(at_least(k, nodes, as_cnf), asg)
    /\ op = "exactly" =>
        \A asg \in Assignments(Len(nodes)) :
            Eval(out, asg) <=> (NumTrue(nodes, asg) = k)

C7_Witness ==
    /\ op = "exactly" /\ ~as_cnf
    /\ 1 < k /\ k + 1 < Len(nodes)
    /\ out.kind \in NODE_OPS

(***************************************************************************)
(* Properties of the Tseitin encoder.                                      *)
(***************************************************************************)
\* The distinct operator nodes of the DAG rooted at n, n included.
RECURSIVE OpSubnodes(_)
OpSubnodes(n) ==
    IF n.kind \in NODE_OPS
    THEN {n} \cup UNION {OpSubnodes(n.xs[i]) : i \in 1..Len(n.xs)}
    ELSE {}

\* The operand tuple the constraint of operator node x is built from when
\* every operator operand is replaced by its auxiliary variable.
AuxOperands(x, lf) ==
    [i \in 1..Len(x.xs) |-> IF x.xs[i].kind \in NODE_OPS THEN lf[x.xs[i]] ELSE x.xs[i]]

\* The assignments to the auxiliary variables handed out so far.
AuxAssignments == [(TsVars + 1)..(TsVars + n_new_vars) -> BOOLEAN]

\* full satisfies top_lit and aux <=> sub for every constraint.
SatisfiesEncoding(full) ==
    /\ Eval(top_lit, full)
    /\ \A i \in 1..Len(constraints) :
            Eval(constraints[i][1], full) <=> Eval(constraints[i][2], full)

\* C8: the assignments to root's variables that satisfy root are exactly the
\* projections of the assignments that satisfy top_lit and aux <=> sub for
\* every returned constraint.
C8_TseitinEquisatisfiable ==
    pc = "done" =>
        \A asg \in Assignments(TsVars) :
            Eval(node, asg) <=> \E aux \in AuxAssignments : SatisfiesEncoding(asg @@ aux)

C8_Witness ==
    /\ pc = "done"
    /\ Len(constraints) >= 3
    /\ \E asg \in Assignments(TsVars) : Eval(node, asg)
    /\ \E asg \in Assignments(TsVars) : ~Eval(node, asg)

\* C9: an atomic root is returned as (root, []) without a factory call;
\* otherwise the factory is called exactly once per distinct operator node,
\* and every use of a subnode is the one auxiliary variable of that subnode.
C9_OneVariablePerNode ==
    /\ n_new_vars = Len(constraints)
    /\ n_new_vars = Cardinality(DOMAIN lit_for)
    /\ pc = "done" /\ node.kind \in NODE_ATOMS =>
            top_lit = node /\ constraints = <<>> /\ n_new_vars = 0
    /\ pc = "done" /\ node.kind \notin NODE_ATOMS =>
            /\ DOMAIN lit_for = OpSubnodes(node)
            /\ Len(constraints) = Cardinality(OpSubnodes(node))
            /\ \A x, y \in DOMAIN lit_for : lit_for[x] = lit_for[y] => x = y
            /\ \A x \in OpSubnodes(node) :
                    \E i \in 1..Len(constraints) :
                        constraints[i] = <<lit_for[x], Build(x.kind, AuxOperands(x, lit_for))>>

\* A subnode that is an operand at two places of the DAG.
C9_Witness ==
    /\ pc = "done"
    /\ \E x, p, q \in OpSubnodes(node) :
          \E i \in 1..Len(p.xs), j \in 1..Len(q.xs) :
              /\ <<p, i>> # <<q, j>>
              /\ p.xs[i] = x /\ q.xs[j] = x

\* C10: constraints are in postorder: the constraint of a node is built from
\* the node's atomic operands and the auxiliary variables of constraints
\* strictly earlier in the list; top_lit is the auxiliary variable of the
\* last constraint, which encodes root.
C10_Postorder ==
    /\ \A i \in 1..Len(constraints) :
          \E x \in DOMAIN lit_for :
              /\ lit_for[x] = constraints[i][1]
              /\ \A c \in Range(x.xs) :
                    \/ c.kind \in NODE_ATOMS
                    \/ \E j \in 1..(i - 1) : c \in DOMAIN lit_for /\ constraints[j][1] = lit_for[c]
              /\ constraints[i][2] = Build(x.kind, AuxOperands(x, lit_for))
    /\ pc = "done" /\ node.kind \notin NODE_ATOMS =>
          /\ top_lit = constraints[Len(constraints)][1]
          /\ top_lit = lit_for[node]

C10_Witness ==
    /\ pc = "done"
    /\ Len(constraints) >= 3
    /\ top_lit = constraints[Len(constraints)][1]

(***************************************************************************)
(* universe.py and variable/universe.py: Universe (specification           *)
(* SpecUniverse).  label_to_idx maps a label to a 0-based position of      *)
(* idx_to_data; a call is recorded in u_call and its result in u_ret.      *)
(***************************************************************************)
Prefixes == {<<"v">>, <<"x">>}

\* The labels handed to get_or_make and var.
Labels ==
    {VariableIdentifier(p, ix) :
        p \in Prefixes, ix \in {<<>>} \cup {<<i>> : i \in 1..(MaxVars - 1)}}

\* Python's list[i]: a negative i counts from the end.
ListGet(s, i) ==
    IF 0 <= i /\ i < Len(s) THEN s[i + 1]
    ELSE IF -Len(s) <= i /\ i < 0 THEN s[Len(s) + i + 1]
    ELSE IndexError

InitUniverse ==
    /\ label_to_idx = <<>> /\ idx_to_data = <<>>
    /\ idx_offset \in 1..MaxOffset
    /\ u_call = NoCall /\ u_ret = NoVariable
    /\ EncodersIdle
    /\ ScopeIdle /\ PureIdle

\* A get_or_make that numbers a new variable by its position alone.
get_or_make_NoOffset(name, label, arg) ==
    /\ label \in DOMAIN label_to_idx \/ Len(idx_to_data) < MaxVars
    /\ u_call' = [name |-> name, label |-> label, arg |-> arg, before |-> idx_to_data]
    /\ IF label \notin DOMAIN label_to_idx
       THEN LET idx == Len(idx_to_data)
            IN /\ idx_to_data' = Append(idx_to_data, Variable(label, idx))
               /\ label_to_idx' = (label :> idx) @@ label_to_idx
               /\ u_ret' = Variable(label, idx)
       ELSE /\ UNCHANGED <<idx_to_data, label_to_idx>>
            /\ u_ret' = ListGet(idx_to_data, label_to_idx[label])
    /\ UNCHANGED idx_offset
    /\ UNCHANGED <<card_vars, tseitin_vars, scope_vars, pure_vars>>

\* Universe.get_or_make(label), recorded as the call `name`.
get_or_make(name, label, arg) ==
    /\ label \in DOMAIN label_to_idx \/ Len(idx_to_data) < MaxVars
    /\ u_call' = [name |-> name, label |-> label, arg |-> arg, before |-> idx_to_data]
    /\ IF label \notin DOMAIN label_to_idx
       THEN LET idx == Len(idx_to_data)
            IN /\ idx_to_data' = Append(idx_to_data, Variable(label, idx_offset + idx))
               /\ label_to_idx' = (label :> idx) @@ label_to_idx
               /\ u_ret' = Variable(label, idx_offset + idx)
       ELSE /\ UNCHANGED <<idx_to_data, label_to_idx>>
            /\ u_ret' = ListGet(idx_to_data, label_to_idx[label])
    /\ UNCHANGED idx_offset
    /\ UNCHANGED <<card_vars, tseitin_vars, scope_vars, pure_vars>>

GetOrMake == \E label \in Labels : get_or_make("get_or_make", label, 0)

\* Universe.var(prefix, *indices)
Var == \E label \in Labels : get_or_make("var", VariableIdentifier(label.names, label.indices), 0)

\* Universe.get_next_var(prefix): self.var(prefix, len(self))
GetNextVar ==
    \E prefix \in Prefixes :
        get_or_make("get_next_var",
                    VariableIdentifier(prefix, <<Cardinality(DOMAIN label_to_idx)>>), 0)

\* A lookup: the call is recorded, the fields are left alone.
Lookup(name, idx, result) ==
    /\ u_call' = [name |-> name, label |-> NoLabel, arg |-> idx, before |-> idx_to_data]
    /\ u_ret' = result
    /\ UNCHANGED <<label_to_idx, idx_to_data, idx_offset>>
    /\ UNCHANGED <<card_vars, tseitin_vars, scope_vars, pure_vars>>

\* The indices handed to a lookup: those of the variables created so far.
CreatedIdxs == {idx_to_data[j].idx : j \in 1..Len(idx_to_data)}

\* universe.py Universe.__getitem__: self.idx_to_data[idx - self.idx_offset]
GetItem ==
    \E idx \in CreatedIdxs :
        Lookup("getitem", idx, ListGet(idx_to_data, idx - idx_offset))

\* variable/universe.py Universe.__getitem__: self.idx_to_data[int(idx)]
VariableGetItem ==
    \E idx \in CreatedIdxs :
        Lookup("variable_getitem", idx, ListGet(idx_to_data, idx))

\* Universe.iter_vars(idx): yields self.idx_to_data[idx]
IterVars ==
    \E idx \in CreatedIdxs :
        Lookup("iter_vars", idx, ListGet(idx_to_data, idx))

NextUniverse ==
    \/ GetOrMake
    \/ Var
    \/ GetNextVar
    \/ GetItem
    \/ VariableGetItem
    \/ IterVars

SpecUniverse == InitUniverse /\ [][NextUniverse]_vars

C12_GetNextVarFresh ==
    u_call.name = "get_next_var" =>
        /\ u_ret \notin Range(u_call.before)
        /\ \A v \in Range(u_call.before) : v.idx # u_ret.idx
        /\ Len(idx_to_data) = Len(u_call.before) + 1

\* C13: for every variable v a Universe created, with any idx_offset >= 1,
\* universe[v.idx] is v and iter_vars(v.idx) yields v.
C13_LookupByIndex ==
    u_call.name \in {"getitem", "variable_getitem", "iter_vars"} =>
        /\ u_ret \in Range(idx_to_data)
        /\ u_ret.idx = u_call.arg

(***************************************************************************)
(* expr.py: the assumption scopes, `with e:` (specification SpecScope).    *)
(* ASSUMPTIONS is the module-level set _ASSUMPTIONS; scopes holds the      *)
(* expressions of the open with-blocks, innermost last.                    *)
(***************************************************************************)
ScopeLits == {lit(i) : i \in 1..ScopeVars} \cup {lit(-i) : i \in 1..ScopeVars}

\* isinstance(x, Literal): _KIND2EXPR makes a Literal of a VAR or COMP node.
IsLiteral(x) == x.kind \in NODE_LITERALS

\* The expressions a with-block is entered on: the literals, every
\* expression one builder call makes from x1 and ~x2, the constants, the
\* conjunctions of x1 with a literal of x2, and conjunctions with an Or
\* operand.
ScopeExprs ==
    ScopeLits \cup {Zero, One}
        \cup OpsOver({lit(1), lit(-2)})
        \cup {and_(<<lit(1), b>>) : b \in {lit(2), lit(-2)}}
        \cup {and_(<<a, or_(<<lit(1), lit(2)>>)>>) : a \in {lit(1), lit(-1)}}

\* The operands of an AndOp up to its first operand that is not a Literal.
RECURSIVE LiteralPrefix(_)
LiteralPrefix(xs) ==
    IF xs = <<>> \/ ~IsLiteral(Head(xs)) THEN {}
    ELSE {Head(xs)} \cup LiteralPrefix(Tail(xs))

\* An AndOp that takes every operand for a Literal.
Raises_AndNeverRaises(e) ==
    CASE IsLiteral(e) -> FALSE
      [] e.kind = OP_AND -> FALSE
      [] OTHER -> TRUE

\* Whether e.__enter__() / e.__exit__() raises ValueError("expected
\* assumption to be a literal"): Expression raises, Literal does not, AndOp
\* raises at its first operand that is not a Literal.
Raises(e) ==
    CASE IsLiteral(e) -> FALSE
      [] e.kind = OP_AND -> \E i \in 1..Len(e.xs) : ~IsLiteral(e.xs[i])
      [] OTHER -> TRUE

\* The literals e.__enter__() adds and e.__exit__() discards.
Touched(e) ==
    CASE IsLiteral(e) -> {e}
      [] e.kind = OP_AND -> LiteralPrefix(e.xs)
      [] OTHER -> {}

\* An __exit__ that removes with set.remove, which raises on a missing element.
ExitRaises_Remove(e, assumptions) ==
    Raises(e) \/ ~(Touched(e) \subseteq assumptions)

\* Whether e.__exit__() raises: set.discard never does.
ExitRaises(e, assumptions) == Raises(e)

InitScope ==
    /\ ScopeIdle
    /\ EncodersIdle /\ UniverseIdle /\ PureIdle

\* `with e:` reaches e.__enter__(); the block is entered unless it raises.
Enter ==
    \E e \in ScopeExprs :
        /\ Len(scopes) < MaxDepth
        /\ s_call' = [name |-> "enter", expr |-> e, raised |-> Raises(e),
                      before |-> ASSUMPTIONS]
        /\ ASSUMPTIONS' = ASSUMPTIONS \cup Touched(e)
        /\ scopes' = IF Raises(e) THEN scopes ELSE Append(scopes, e)
        /\ UNCHANGED s_nested
        /\ UNCHANGED <<card_vars, tseitin_vars, universe_vars, pure_vars>>

\* The innermost with-block ends: e.__exit__(...).
Exit ==
    /\ scopes # <<>>
    /\ LET e == scopes[Len(scopes)] IN
          /\ s_call' = [name |-> "exit", expr |-> e,
                        raised |-> ExitRaises(e, ASSUMPTIONS),
                        before |-> ASSUMPTIONS]
          /\ ASSUMPTIONS' = ASSUMPTIONS \ Touched(e)
    /\ scopes' = SubSeq(scopes, 1, Len(scopes) - 1)
    /\ UNCHANGED s_nested
    /\ UNCHANGED <<card_vars, tseitin_vars, universe_vars, pure_vars>>

\* e.__exit__(...) of an expression whose block is not the innermost one.
ExitUnknown ==
    \E e \in ScopeExprs :
        /\ s_call' = [name |-> "exit_unknown", expr |-> e,
                      raised |-> ExitRaises(e, ASSUMPTIONS),
                      before |-> ASSUMPTIONS]
        /\ ASSUMPTIONS' = ASSUMPTIONS \ Touched(e)
        /\ s_nested' = FALSE
        /\ UNCHANGED scopes
        /\ UNCHANGED <<card_vars, tseitin_vars, universe_vars, pure_vars>>

NextScope ==
    \/ Enter
    \/ Exit
    \/ ExitUnknown

SpecScope == InitScope /\ [][NextScope]_vars

(***************************************************************************)
(* Properties of the assumption scopes.                                    *)
(***************************************************************************)
\* C14: for properly nested scopes, every literal pushed on entry to a scope
\* stays in the assumption set until that same scope exits, also when an
\* inner scope on the same literal is entered and exited in between.
C14_ScopeKeepsLiterals ==
    s_nested =>
        \A i \in 1..Len(scopes) : Touched(scopes[i]) \subseteq ASSUMPTIONS

\* C15: entering a scope on an expression that is neither a literal nor a
\* conjunction whose operands are all literals fails with ValueError
\* "expected assumption to be a literal".
C15_InvalidAssumption ==
    s_call.name = "enter" =>
        LET e == s_call.expr
            allowed == \/ e.kind \in {VAR, COMP}
                       \/ /\ e.kind = OP_AND
                          /\ \A x \in Range(e.xs) : x.kind \in {VAR, COMP}
        IN ~allowed => s_call.raised

C15_Witness ==
    /\ s_call.name = "enter" /\ s_call.raised
    /\ s_call.expr.kind = OP_AND
    /\ Len(scopes) = 1

\* C16: exiting a scope for a literal, or a conjunction of literals, none of
\* which is in the assumption set raises nothing and leaves the set unchanged.
C16_ExitUnknownNoOp ==
    (/\ s_call.name \in {"exit", "exit_unknown"}
     /\ \/ s_call.expr.kind \in {VAR, COMP}
        \/ /\ s_call.expr.kind = OP_AND
           /\ \A x \in Range(s_call.expr.xs) : x.kind \in {VAR, COMP}
     /\ (IF s_call.expr.kind = OP_AND THEN Range(s_call.expr.xs) ELSE {s_call.expr})
            \cap s_call.before = {})
        => ~s_call.raised /\ ASSUMPTIONS = s_call.before

C16_Witness ==
    /\ s_call.name = "exit_unknown"
    /\ s_call.expr.kind = OP_AND
    /\ \A x \in Range(s_call.expr.xs) : x.kind \in {VAR, COMP}
    /\ s_call.before # {}
    /\ Range(s_call.expr.xs) \cap s_call.before = {}
    /\ ASSUMPTIONS = s_call.before

(***************************************************************************)
(* expr.py: NormalForm(nvars, clauses), DisjNormalForm, ConjNormalForm,    *)
(* DimacsCNF (specification SpecNormalForm).  A form is a record           *)
(* [cls, nvars, clauses], clauses a set of sets of signed integers.        *)
(***************************************************************************)
NormalForm(cls, nvars, clauses) == [cls |-> cls, nvars |-> nvars, clauses |-> clauses]

\* Python's ~v on an int.
BitNot(v) == -v - 1

\* An invert that swaps the class and keeps the literals.
invert_KeepsLiterals(nf) ==
    NormalForm(IF nf.cls = "DisjNormalForm" THEN "ConjNormalForm" ELSE "DisjNormalForm",
               nf.nvars, nf.clauses)

\* DisjNormalForm.invert / ConjNormalForm.invert
invert(nf) ==
    NormalForm(IF nf.cls = "DisjNormalForm" THEN "ConjNormalForm" ELSE "DisjNormalForm",
               nf.nvars,
               {{-idx : idx \in clause} : clause \in nf.clauses})

\* The clauses NormalForm.reduce makes of one clause.
ReduceClause(nvars, clause) ==
    LET support == 1..nvars
        vs == SetToSeq(support \ {Abs(uniqid) : uniqid \in clause})
    IN IF vs # <<>>
       THEN {clause \cup {IF bit_on(num, i - 1) THEN vs[i] ELSE BitNot(vs[i]) :
                              i \in 1..Len(vs)} :
                num \in 0..(Pow2(Len(vs)) - 1)}
       ELSE {clause}

\* NormalForm.reduce
reduce(nf) ==
    NormalForm(nf.cls, nf.nvars,
               UNION {ReduceClause(nf.nvars, clause) : clause \in nf.clauses})

\* The signed integers of a form with nvars variables.
Signed(nvars) == {i \in (-nvars)..nvars : i # 0}

\* The sets of at most n elements of S.
RECURSIVE UpTo(_, _)
UpTo(n, S) ==
    IF n = 0 THEN {{}}
    ELSE LET smaller == UpTo(n - 1, S)
         IN smaller \cup {T \cup {x} : T \in smaller, x \in S}

InitNormalForm ==
    /\ fn = "init"
    /\ \E nvars \in 0..NfVars :
          \E clauses \in UpTo(MaxClauses, SUBSET Signed(nvars)) :
              \E cls \in {"DisjNormalForm", "ConjNormalForm", "DimacsCNF"} :
                  fn_args = NormalForm(cls, nvars, clauses)
    /\ fn_result = <<>>
    /\ EncodersIdle /\ UniverseIdle /\ ScopeIdle

\* A call of the pure function `name` that returns r.
PureCall(name, r) ==
    /\ fn = "init"
    /\ fn' = name
    /\ fn_result' = r
    /\ UNCHANGED fn_args
    /\ UNCHANGED <<card_vars, tseitin_vars, universe_vars, scope_vars>>

CallInvert == PureCall("invert", invert(fn_args))

CallInvertInvert == PureCall("invert_invert", invert(invert(fn_args)))

CallReduce == PureCall("reduce", reduce(fn_args))

NextNormalForm ==
    \/ CallInvert
    \/ CallInvertInvert
    \/ CallReduce

SpecNormalForm == InitNormalForm /\ [][NextNormalForm]_vars

(***************************************************************************)
(* Properties of the normal forms.                                         *)
(***************************************************************************)
\* C17: invert negates every literal of every clause, keeps nvars and turns
\* a DNF into a CNF and a CNF into a DNF; applied twice it gives back the
\* same nvars and the same clause set.
C17_InvertInvolution ==
    /\ fn = "invert" =>
          /\ fn_result.nvars = fn_args.nvars
          /\ fn_result.clauses = {{-i : i \in c} : c \in fn_args.clauses}
          /\ fn_args.cls = "DisjNormalForm" => fn_result.cls = "ConjNormalForm"
          /\ fn_args.cls \in {"ConjNormalForm", "DimacsCNF"} =>
                fn_result.cls = "DisjNormalForm"
    /\ fn = "invert_invert" =>
          /\ fn_result.nvars = fn_args.nvars
          /\ fn_result.clauses = fn_args.clauses

C17_Witness ==
    /\ fn = "invert_invert"
    /\ fn_args.cls = "DisjNormalForm"
    /\ Cardinality(fn_args.clauses) = MaxClauses
    /\ \E c \in fn_args.clauses : Cardinality(c) >= 2
    /\ fn_result.clauses = fn_args.clauses

\* C18: reduce returns a form of the same class and nvars in which every
\* clause holds exactly one literal, +v or -v, for each variable v in
\* 1..nvars and no other integer; a clause that mentions nvars - m variables
\* is replaced by the 2^m full clauses that extend it.  (Stated for forms
\* none of whose clauses holds both +v and -v.)
C18_ReduceCanonical ==
    (/\ fn = "reduce"
     /\ \A c \in fn_args.clauses : \A v \in 1..fn_args.nvars : ~(v \in c /\ -v \in c))
        =>
        /\ fn_result.cls = fn_args.cls
        /\ fn_result.nvars = fn_args.nvars
        /\ \A c \in fn_result.clauses :
              /\ c \subseteq Signed(fn_args.nvars)
              /\ \A v \in 1..fn_args.nvars : (v \in c) # (-v \in c)
        /\ \A c \in fn_args.clauses :
              LET m == fn_args.nvars - Cardinality({Abs(i) : i \in c})
                  full == {d \in fn_result.clauses : c \subseteq d}
              IN Cardinality(full) = Pow2(m)

(***************************************************************************)
(* expr.py: expr2dimacscnf(ex) and str(DimacsCNF) (specification           *)
(* SpecDimacs).  A string is the tuple of its characters.                  *)
(***************************************************************************)
Digits == <<"0", "1", "2", "3", "4", "5", "6", "7", "8", "9">>

\* str(n) of a natural number.
RECURSIVE StrNat(_)
StrNat(n) ==
    IF n < 10 THEN <<Digits[n + 1]>>
    ELSE StrNat(n \div 10) \o <<Digits[(n % 10) + 1]>>

\* str(i) of an int.
Str(i) == IF i < 0 THEN <<"-">> \o StrNat(-i) ELSE StrNat(i)

\* sep.join(strs)
RECURSIVE Join(_, _)
Join(sep, strs) ==
    IF strs = <<>> THEN <<>>
    ELSE IF Len(strs) = 1 THEN strs[1]
    ELSE strs[1] \o sep \o Join(sep, Tail(strs))

\* The orders in which iterating over the set S may yield its elements.
Orders(S) ==
    {o \in [1..Cardinality(S) -> S] : \A i, j \in 1..Cardinality(S) : i # j => o[i] # o[j]}

\* The variables (positive indices) that occur in node n.
RECURSIVE Support(_)
Support(n) ==
    IF n.kind \in NODE_LITERALS THEN {Abs(n.idx)}
    ELSE UNION {Support(n.xs[i]) : i \in 1..Len(n.xs)}

\* The sequence of the elements of a set of integers in ascending order.
RECURSIVE Sorted(_)
Sorted(S) ==
    IF S = {} THEN <<>>
    ELSE LET m == CHOOSE x \in S : \A y \in S : x <= y
         IN <<m>> \o Sorted(S \ {m})

\* Expression.inputs: the support sorted by node.data()
inputs(n) == Sorted(Support(n))

\* An encode_inputs that keeps each variable's own index.
encode_inputs_OwnIndex(n) ==
    [litmap |-> [l \in Support(n) \cup {-v : v \in Support(n)} |-> l],
     nvars |-> Cardinality(Support(n))]

\* Expression.encode_inputs: litmap[v] = i and litmap[~v] = -i for the i-th
\* input v (the signed index of a literal is the key here).
encode_inputs(n) ==
    LET ins == inputs(n)
        pos == [v \in Range(ins) |-> CHOOSE i \in 1..Len(ins) : ins[i] = v]
    IN [litmap |-> [l \in {v : v \in Range(ins)} \cup {-v : v \in Range(ins)} |->
                        IF l > 0 THEN pos[l] ELSE -pos[-l]],
        nvars |-> Len(ins)]

\* Literal._encode_clause / OrAndOp._encode_clause
encode_clause(x, litmap) ==
    IF x.kind \in NODE_LITERALS THEN {litmap[x.idx]}
    ELSE {litmap[x.xs[i].idx] : i \in 1..Len(x.xs)}

\* ExprNode.is_cnf: One, a literal, an Or of literals, or an And of literals
\* and Ors of literals.
IsClause(n) ==
    \/ n.kind \in NODE_LITERALS
    \/ n.kind = OP_OR /\ \A i \in 1..Len(n.xs) : n.xs[i].kind \in NODE_LITERALS

is_cnf(n) ==
    \/ n = One
    \/ IsClause(n)
    \/ n.kind = OP_AND /\ \A i \in 1..Len(n.xs) : IsClause(n.xs[i])

\* _One._encode_cnf, Literal._encode_cnf, OrOp._encode_cnf, AndOp._encode_cnf
encode_cnf(n) ==
    LET enc == encode_inputs(n)
        clauses == CASE n = One -> {}
                     [] n.kind = OP_AND ->
                            {encode_clause(n.xs[i], enc.litmap) : i \in 1..Len(n.xs)}
                     [] OTHER -> {encode_clause(n, enc.litmap)}
    IN [litmap |-> enc.litmap, nvars |-> enc.nvars, clauses |-> clauses]

\* NormalForm.__str__ with the clauses and their integers iterated in the
\* given orders.
NormalForm_str(clause_order, idx_order) ==
    Join(<<"\n">>,
         [j \in 1..Len(clause_order) |->
             Join(<<" ">>, [i \in 1..Len(idx_order[clause_order[j]]) |->
                               Str(idx_order[clause_order[j]][i])])
                 \o <<" ", "0">>])

\* DimacsCNF.__str__: f"p cnf {self.nvars} {self.nclauses}\n{formula}"
DimacsCNF_str(nf, clause_order, idx_order) ==
    <<"p", " ", "c", "n", "f", " ">> \o Str(nf.nvars) \o <<" ">>
        \o Str(Cardinality(nf.clauses)) \o <<"\n">>
        \o NormalForm_str(clause_order, idx_order)

CnfLits == {lit(i) : i \in 1..CnfVars} \cup {lit(-i) : i \in 1..CnfVars}

\* Clauses of one or two literals: x, ~x, x | y, x | ~y, ~x | ~y.
ClauseNodes ==
    CnfLits \cup {or_(<<a, b>>) : a, b \in {l \in CnfLits : l.idx > 0}}
            \cup {or_(<<a, b>>) : a, b \in {l \in CnfLits : l.idx < 0}}
            \cup {or_(<<lit(p[1]), lit(-p[2])>>) :
                      p \in {q \in (1..CnfVars) \X (1..CnfVars) : q[1] < q[2]}}

InitDimacs ==
    /\ fn = "init"
    /\ \E S \in UpTo(MaxCnfClauses, ClauseNodes) :
          /\ fn_args = and_(SetToSeq(S))
          /\ is_cnf(fn_args)
    /\ fn_result = <<>>
    /\ EncodersIdle /\ UniverseIdle /\ ScopeIdle

\* expr2dimacscnf(ex) and str() of the DimacsCNF it returns.
Expr2DimacsCnf ==
    /\ fn = "init"
    /\ is_cnf(fn_args)
    /\ LET enc == encode_cnf(fn_args)
           nf == NormalForm("DimacsCNF", enc.nvars, enc.clauses)
       IN \E clause_order \in Orders(nf.clauses) :
             \E idx_order \in [nf.clauses -> UNION {Orders(c) : c \in nf.clauses}] :
                 /\ \A c \in nf.clauses : idx_order[c] \in Orders(c)
                 /\ PureCall("expr2dimacscnf",
                             [litmap |-> enc.litmap, nf |-> nf,
                              text |-> DimacsCNF_str(nf, clause_order, idx_order)])

NextDimacs == Expr2DimacsCnf

SpecDimacs == InitDimacs /\ [][NextDimacs]_vars

(***************************************************************************)
(* Properties of the DIMACS text.                                          *)
(***************************************************************************)
\* str.splitlines(): the lines of a text, a final newline ending the last line.
RECURSIVE SplitLines(_)
SplitLines(text) ==
    IF text = <<>> THEN <<>>
    ELSE IF \E i \in 1..Len(text) : text[i] = "\n"
    THEN LET i == CHOOSE i \in 1..Len(text) :
                      text[i] = "\n" /\ \A j \in 1..(i - 1) : text[j] # "\n"
         IN <<SubSeq(text, 1, i - 1)>> \o SplitLines(SubSeq(text, i + 1, Len(text)))
    ELSE <<text>>

\* The clauses of a CNF expression, each the set of its literal nodes.
ClausesOf(n) ==
    LET lits(c) == IF c.kind \in NODE_LITERALS THEN {c} ELSE Range(c.xs)
    IN IF n = One THEN {}
       ELSE IF n.kind = OP_AND THEN {lits(n.xs[i]) : i \in 1..Len(n.xs)}
       ELSE {lits(n)}

\* The number of a literal when the variables of support S are numbered
\* 1..|S| in ascending order.
Numbered(l, S) ==
    LET rank == Cardinality({w \in S : w <= Abs(l.idx)})
    IN IF l.idx > 0 THEN rank ELSE -rank

\* Whether line lists exactly the integers of c, each once, and ends in " 0".
Renders(line, c) ==
    \E o \in Orders(c) :
        line = Join(<<" ">>, [i \in 1..Len(o) |-> Str(o[i])]) \o <<" ", "0">>

\* C19: for a CNF expression, expr2dimacscnf numbers the variables of its
\* support 1..nvars in ascending variable order, and the text of the
\* DimacsCNF is the header line "p cnf <nvars> <nclauses>" followed by
\* exactly one line per clause that lists the clause's signed nonzero
\* integers and ends in " 0".
C19_DimacsText ==
    fn = "expr2dimacscnf" =>
        LET S == Support(fn_args)
            expected == {{Numbered(l, S) : l \in c} : c \in ClausesOf(fn_args)}
            lines == SplitLines(fn_result.text)
        IN /\ \A v \in S :
                 /\ fn_result.litmap[v] = Cardinality({w \in S : w <= v})
                 /\ fn_result.litmap[-v] = -Cardinality({w \in S : w <= v})
           /\ fn_result.nf.nvars = Cardinality(S)
           /\ Len(lines) = 1 + Cardinality(expected)
           /\ lines[1] = <<"p", " ", "c", "n", "f", " ">> \o Str(Cardinality(S))
                             \o <<" ">> \o Str(Cardinality(expected))
           /\ \A j \in 2..Len(lines) : \E c \in expected : Renders(lines[j], c)
           /\ \A c \in expected :
                 Cardinality({j \in 2..Len(lines) : Renders(lines[j], c)}) = 1
           /\ \A c \in expected : 0 \notin c

C19_Witness ==
    /\ fn = "expr2dimacscnf"
    /\ Support(fn_args) = {1, 3}
    /\ Cardinality(fn_result.nf.clauses) = 2
    /\ {1, -2} \in fn_result.nf.clauses

(***************************************************************************)
(* expression/node/transform.py: shannon; expression/simple.py: determine  *)
(* (specification SpecShannon).                                            *)
(***************************************************************************)
\* Variable.pos_lit / __pos__ and Variable.neg_lit / __neg__
pos_lit(var) == lit(var.idx)

neg_lit(var) == lit(-var.idx)

\* A point_to_term that takes the positive literal of every variable.
point_to_term_Positive(point) ==
    LET keys == SetToSeq(DOMAIN point)
    IN and_([i \in 1..Len(keys) |-> pos_lit(keys[i])])

\* point_to_term: and_(*(+v if p else -v for v, p in point.items()))
point_to_term(point) ==
    LET keys == SetToSeq(DOMAIN point)
    IN and_([i \in 1..Len(keys) |->
                IF point[keys[i]] THEN pos_lit(keys[i]) ELSE neg_lit(keys[i])])

\* condition: node.restrict({var.pos_lit: One if polarity else Zero})
condition(n, point) ==
    restrict(n, [l \in {pos_lit(v) : v \in DOMAIN point} |->
                    IF point[CHOOSE v \in DOMAIN point : pos_lit(v) = l]
                    THEN One ELSE Zero])

\* shannon(node, *variables)
shannon(n, variables) ==
    LET points == iter_points(variables)
    IN or_([j \in 1..Len(points) |->
               and_(<<point_to_term(points[j]), condition(n, points[j])>>)])

\* SimpleExpression.determine(*vs, simplify)
determine(n, vs, simp) ==
    IF simp THEN simplify(shannon(n, vs)) ELSE shannon(n, vs)

\* The variables x1..xn of one universe.
ShVariables == {Variable(VariableIdentifier(<<"x">>, <<i>>), i) : i \in 1..ShVars}

ShAtoms == {Zero, One} \cup {pos_lit(v) : v \in ShVariables}
              \cup {neg_lit(v) : v \in ShVariables}

\* The expressions handed to shannon: the atoms and the expressions one
\* builder call makes from them; vs may repeat a variable and may name a
\* variable outside the support.
InitShannon ==
    /\ fn = "init"
    /\ \E f \in OpsOver(ShAtoms) \cup ShAtoms :
          \E len \in 0..MaxVs :
              \E vs \in [1..len -> ShVariables] :
                  \E simp \in BOOLEAN :
                      fn_args = [node |-> f, vs |-> vs, simplify |-> simp]
    /\ fn_result = <<>>
    /\ EncodersIdle /\ UniverseIdle /\ ScopeIdle

CallShannon == PureCall("shannon", shannon(fn_args.node, fn_args.vs))

CallDetermine ==
    PureCall("determine", determine(fn_args.node, fn_args.vs, fn_args.simplify))

NextShannon ==
    \/ CallShannon
    \/ CallDetermine

SpecShannon == InitShannon /\ [][NextShannon]_vars

(***************************************************************************)
(* Properties of the Shannon decomposition.                                *)
(***************************************************************************)
\* Whether nodes a and b have the same truth value under every assignment
\* of x1..xn.
SameFunction(a, b, n) == \A asg \in Assignments(n) : Eval(a, asg) = Eval(b, asg)

\* C20: shannon(f, vs), the Or over all points p of vs of
\* And(term(p), condition(f, p)), has the same truth value as f under every
\* assignment (determine returns it, simplified or not); for a single
\* variable v it is Or(And(v, f|v=1), And(Not(v), f|v=0)).
C20_ShannonEquivalent ==
    fn \in {"shannon", "determine"} =>
        /\ SameFunction(fn_result, fn_args.node, ShVars)
        /\ fn = "shannon" /\ Len(fn_args.vs) = 1 =>
              LET v == pos_lit(fn_args.vs[1])
                  f == fn_args.node
              IN SameFunction(fn_result,
                              or_(<<and_(<<v, restrict(f, (v :> One))>>),
                                    and_(<<not_(v), restrict(f, (v :> Zero))>>)>>),
                              ShVars)

C20_Witness ==
    /\ fn = "shannon"
    /\ Len(fn_args.vs) = 2
    /\ fn_args.vs[1] # fn_args.vs[2]
    /\ fn_args.node.kind = OP_XOR
    /\ \A i \in 1..2 : fn_args.vs[i].idx \in Support(fn_args.node)
    /\ fn_result.kind = OP_OR

(***************************************************************************)
(* point.py: iter_points; expression/node/transform.py: iter_cofactors;    *)
(* expression/interface.py: Expression.iter_cofactors (specification       *)
(* SpecPoints, over the arguments of InitShannon).                         *)
(***************************************************************************)
\* iter_cofactors(node, *variables): condition(node, point) per point.
iter_cofactors(n, variables) ==
    LET points == iter_points(variables)
    IN [j \in 1..Len(points) |-> condition(n, points[j])]

\* SimpleExpression.condition(point, simplify=True)
SimpleExpression_condition(n, point, simp) ==
    IF simp THEN simplify(condition(n, point)) ELSE condition(n, point)

\* Expression.iter_cofactors(*variables): self.condition(point) per point.
Expression_iter_cofactors(n, variables) ==
    LET points == iter_points(variables)
    IN [j \in 1..Len(points) |-> SimpleExpression_condition(n, points[j], TRUE)]

CallIterPoints == PureCall("iter_points", iter_points(fn_args.vs))

CallIterCofactors ==
    PureCall("iter_cofactors", iter_cofactors(fn_args.node, fn_args.vs))

CallExpressionIterCofactors ==
    PureCall("Expression.iter_cofactors",
             Expression_iter_cofactors(fn_args.node, fn_args.vs))

NextPoints ==
    \/ CallIterPoints
    \/ CallIterCofactors
    \/ CallExpressionIterCofactors

SpecPoints == InitShannon /\ [][NextPoints]_vars

(***************************************************************************)
(* Properties of points and cofactors.                                     *)
(***************************************************************************)
Distinct(s) == \A i, j \in 1..Len(s) : i # j => s[i] # s[j]

\* Bit i (0-based, little-endian) of the natural number num.
Bit(num, i) == (num \div Pow2(i)) % 2 = 1

\* The num-th point of the distinct variables vs as the claim states it.
NthPoint(num, vs) ==
    [v \in Range(vs) |-> Bit(num, (CHOOSE i \in 1..Len(vs) : vs[i] = v) - 1)]

\* The restriction of node n at point.
RestrictAt(n, point) ==
    restrict(n, [l \in {lit(v.idx) : v \in DOMAIN point} |->
                    IF point[CHOOSE v \in DOMAIN point : lit(v.idx) = l]
                    THEN One ELSE Zero])

\* C21: for N distinct variables vs, iter_points(vs) yields exactly 2^N
\* points in the order num = 0 .. 2^N - 1, the num-th point mapping vs[i] to
\* bit i of num; the points are pairwise distinct and cover every 0/1
\* assignment to vs; iter_cofactors yields the restriction of the expression
\* at each of these points, in that order.
C21_PointsAndCofactors ==
    Distinct(fn_args.vs) =>
        LET vs == fn_args.vs
            N == Len(vs)
        IN /\ fn = "iter_points" =>
                 /\ Len(fn_result) = Pow2(N)
                 /\ \A num \in 0..(Pow2(N) - 1) : fn_result[num + 1] = NthPoint(num, vs)
                 /\ Distinct(fn_result)
                 /\ \A a \in [Range(vs) -> BOOLEAN] : a \in Range(fn_result)
           /\ fn = "iter_cofactors" =>
                 /\ Len(fn_result) = Pow2(N)
                 /\ \A num \in 0..(Pow2(N) - 1) :
                        fn_result[num + 1] = RestrictAt(fn_args.node, NthPoint(num, vs))
           /\ fn = "Expression.iter_cofactors" =>
                 /\ Len(fn_result) = Pow2(N)
                 /\ \A num \in 0..(Pow2(N) - 1) :
                        SameFunction(fn_result[num + 1],
                                     RestrictAt(fn_args.node, NthPoint(num, vs)),
                                     ShVars)

C21_Witness ==
    /\ fn = "iter_cofactors"
    /\ Len(fn_args.vs) = 2
    /\ Distinct(fn_args.vs)
    /\ fn_args.node.kind \in NODE_OPS
    /\ \A i \in 1..2 : fn_args.vs[i].idx \in Support(fn_args.node)
    /\ Len(fn_result) = 4
    /\ fn_result[2] # fn_result[3]

(***************************************************************************)
(* expression/simple.py: SimpleExpression.simplify and _new_if_different   *)
(* (specification SpecSimple).  A SimpleExpression is a wrapper object     *)
(* (oid) around a node; the identifier of a hash-consed node is the node.  *)
(***************************************************************************)
SimpleExpression(n, oid) == [node |-> n, oid |-> oid]

\* A _new_if_different that always wraps the node in a new object.
new_if_different_AlwaysNew(self, new_node) ==
    SimpleExpression(new_node, self.oid + 1)

\* _new_if_different: a new wrapper only when the node identifier differs.
new_if_different(self, new_node) ==
    IF new_node # self.node THEN SimpleExpression(new_node, self.oid + 1)
    ELSE self

\* SimpleExpression.simplify
SimpleExpression_simplify(self) == new_if_different(self, simplify(self.node))

\* SimpleExpression.from_node(node, simplify=False) over a node made with
\* the reductions, or over a node whose root operator was made without them
\* (over atoms, or over a reduced expression and an atom).
SimpleNodes ==
    ShAtoms \cup OpsOver(ShAtoms)
            \cup UNION {UNION {{OpNode(kind, args) : args \in [1..a -> ShAtoms]} :
                                  a \in Arity(kind)} : kind \in NODE_OPS}
            \cup {OpNode(OP_NOT, <<x>>) : x \in OpsOver(ShAtoms)}
            \cup {OpNode(kind, <<x, c>>) :
                      kind \in {OP_AND, OP_OR, OP_XOR, OP_EQ, OP_IMPL},
                      x \in OpsOver(ShAtoms), c \in ShAtoms}

InitSimple ==
    /\ fn = "init"
    /\ \E n \in SimpleNodes : fn_args = SimpleExpression(n, 1)
    /\ fn_result = <<>>
    /\ EncodersIdle /\ UniverseIdle /\ ScopeIdle

\* x.simplify() and then .simplify() of what it returned.
CallSimplifyTwice ==
    LET once == SimpleExpression_simplify(fn_args)
    IN PureCall("simplify", [once |-> once, twice |-> SimpleExpression_simplify(once)])

NextSimple == CallSimplifyTwice

SpecSimple == InitSimple /\ [][NextSimple]_vars

(***************************************************************************)
(* Properties of SimpleExpression.simplify.                                *)
(***************************************************************************)
\* C22: simplify(simplify(x)) is the identical node as simplify(x), and
\* SimpleExpression.simplify on an already simplified expression returns
\* that very same expression object, not a new wrapper.
C22_SimplifyIdempotent ==
    fn = "simplify" =>
        /\ simplify(simplify(fn_args.node)) = simplify(fn_args.node)
        /\ fn_result.once.node = simplify(fn_args.node)
        /\ fn_result.twice = fn_result.once
        /\ simplify(fn_args.node) = fn_args.node => fn_result.once = fn_args

C22_Witness ==
    /\ fn = "simplify"
    /\ fn_result.once.node # fn_args.node
    /\ fn_result.once.node.kind \in NODE_OPS
    /\ fn_result.once.oid = 2
    /\ fn_result.twice.oid = 2

(***************************************************************************)
(* The transforms of a SimpleExpression (expression/simple.py) and         *)
(* Expression.to_binary (expr.py) over the exprnode transforms             *)
(* (specification SpecTransform).                                          *)
(***************************************************************************)
\* The cube set of an NNF node: Or unites, And distributes.
RECURSIVE DnfCubes(_), DnfAnd(_)
DnfCubes(n) ==
    CASE n.kind = ZERO -> {}
      [] n.kind = ONE -> {{}}
      [] n.kind \in NODE_LITERALS -> {{n.idx}}
      [] n.kind = OP_OR -> Absorb(UNION {DnfCubes(n.xs[i]) : i \in 1..Len(n.xs)})
      [] n.kind = OP_AND -> DnfAnd(n.xs)
DnfAnd(xs) ==
    IF xs = <<>> THEN {{}}
    ELSE Distribute(DnfCubes(Head(xs)), DnfAnd(Tail(xs)))

\* The Or of the Ands of the literals of each cube.
Cover(cubes) == or_(SetToSeq({and_(SetToSeq({lit(i) : i \in c})) : c \in cubes}))

\* to_dnf: a flat Or of Ands of literals.
to_dnf(n) == Cover(DnfCubes(to_nnf(n)))

\* pushdown_not: Not over And/Or becomes Or/And of the negated operands, Not
\* over Ite negates the branches, Not over Xor negates one operand, Not over
\* Impl(p, q) becomes And(p, Not(q)); a Not over an n-ary Eq stays in place.
RECURSIVE pushdown_not(_)
pushdown_not(n) ==
    LET down(xs) == [i \in 1..Len(xs) |-> pushdown_not(xs[i])]
        neg(xs) == [i \in 1..Len(xs) |-> pushdown_not(not_(xs[i]))]
    IN CASE n.kind \in NODE_ATOMS -> n
         [] n.kind = OP_NOT ->
               LET x == n.xs[1] IN
               CASE x.kind = OP_AND -> or_(neg(x.xs))
                 [] x.kind = OP_OR -> and_(neg(x.xs))
                 [] x.kind = OP_ITE -> ite(pushdown_not(x.xs[1]),
                                           pushdown_not(not_(x.xs[2])),
                                           pushdown_not(not_(x.xs[3])))
                 [] x.kind = OP_XOR -> xor(<<pushdown_not(not_(x.xs[1]))>> \o down(Tail(x.xs)))
                 [] x.kind = OP_IMPL -> and_(<<pushdown_not(x.xs[1]),
                                              pushdown_not(not_(x.xs[2]))>>)
                 [] OTHER -> not_(Build(x.kind, down(x.xs)))
         [] OTHER -> Build(n.kind, down(n.xs))

\* The cubes over x1..xn: every variable positive, negative or absent.
Cubes(n) == {c \in SUBSET Signed(n) : \A i \in c : -i \notin c}

IsImplicant(c, n, nv) ==
    \A asg \in [1..nv -> BOOLEAN] :
        (\A i \in c : asg[Abs(i)] = (i > 0)) => Eval(n, asg)

\* complete_sum: the Or of exactly the prime implicants: the implicants
\* from which no literal can be dropped.
complete_sum(n, nv) ==
    LET implicants == {c \in Cubes(nv) : IsImplicant(c, n, nv)}
    IN Cover({c \in implicants : \A i \in c : (c \ {i}) \notin implicants})

\* A left-associated tree of binary operators of one kind.
RECURSIVE LeftTree(_, _)
LeftTree(kind, xs) ==
    IF Len(xs) = 1 THEN xs[1]
    ELSE OpNode(kind, <<LeftTree(kind, SubSeq(xs, 1, Len(xs) - 1)), xs[Len(xs)]>>)

\* to_binary: every operator of more than two operands becomes a
\* left-associated tree of binary operators; an n-ary Eq becomes the
\* conjunction of the Eq of its pairs.
RECURSIVE to_binary(_)
to_binary(n) ==
    IF n.kind \in NODE_ATOMS THEN n
    ELSE LET xs == [i \in 1..Len(n.xs) |-> to_binary(n.xs[i])]
         IN IF Len(xs) <= 2 \/ n.kind = OP_ITE THEN OpNode(n.kind, xs)
            ELSE IF n.kind = OP_EQ
            THEN LeftTree(OP_AND,
                          SetToSeq({OpNode(OP_EQ, <<xs[p[1]], xs[p[2]]>>) :
                                       p \in {q \in (1..Len(xs)) \X (1..Len(xs)) :
                                                 q[1] < q[2]}}))
            ELSE LeftTree(n.kind, xs)

\* SimpleExpression.to_cnf / to_dnf / to_nnf / prime_implicants / simplify /
\* pushdown_not(simplify) and Expression.to_binary: the transformed node.
Transforms ==
    {"to_cnf", "to_dnf", "to_nnf", "complete_sum", "pushdown_not", "simplify", "to_binary"}

\* A transform dispatch that hands pushdown_not the plain negation.
TransformNode_NotDropped(name, n, simp) ==
    CASE name = "to_cnf" -> to_cnf(n)
      [] name = "to_dnf" -> to_dnf(n)
      [] name = "to_nnf" -> to_nnf(n)
      [] name = "complete_sum" -> complete_sum(n, TrVars)
      [] name = "pushdown_not" -> IF n.kind = OP_NOT THEN n.xs[1] ELSE n
      [] name = "simplify" -> simplify(n)
      [] name = "to_binary" -> to_binary(n)

TransformNode(name, n, simp) ==
    CASE name = "to_cnf" -> to_cnf(n)
      [] name = "to_dnf" -> to_dnf(n)
      [] name = "to_nnf" -> to_nnf(n)
      [] name = "complete_sum" -> complete_sum(n, TrVars)
      [] name = "pushdown_not" ->
            IF simp THEN simplify(pushdown_not(n)) ELSE pushdown_not(n)
      [] name = "simplify" -> simplify(n)
      [] name = "to_binary" -> to_binary(n)

TrAtoms == {Zero, One} \cup {lit(i) : i \in Signed(TrVars)}

\* The expressions handed to the transforms: atoms, one builder call over
\* atoms, the negation of such an expression, and a binary operator over
\* such an expression and an atom.
InitTransform ==
    /\ fn = "init"
    /\ \/ \E n \in TrAtoms \cup OpsOver(TrAtoms) :
             fn_args = [self |-> SimpleExpression(n, 1)]
       \/ \E x \in OpsOver(TrAtoms), c \in TrAtoms :
             \E kind \in {OP_NOT, OP_AND, OP_OR, OP_XOR, OP_IMPL} :
                 fn_args = [self |-> SimpleExpression(Build(kind, <<x, c>>), 1)]
    /\ fn_result = <<>>
    /\ EncodersIdle /\ UniverseIdle /\ ScopeIdle

\* One transform call; simp is the simplify argument of pushdown_not.
CallTransform ==
    \E name \in Transforms, simp \in BOOLEAN :
        PureCall(name, new_if_different(fn_args.self,
                                        TransformNode(name, fn_args.self.node, simp)))

NextTransform == CallTransform

SpecTransform == InitTransform /\ [][NextTransform]_vars

(***************************************************************************)
(* Properties of the transforms.                                           *)
(***************************************************************************)
\* The constant node n restricted to the total point asg over x1..xnv gives.
RestrictAll(n, asg, nv) ==
    restrict(n, [l \in {lit(i) : i \in 1..nv} |-> IF asg[l.idx] THEN One ELSE Zero])

AssertionError == [label |-> NoLabel, idx |-> -2, literals |-> <<NoNode, NoNode>>]

\* Variable._assert_valid: whether every assertion passes.
Variable_assert_valid(var) ==
    /\ var.idx > 0
    /\ pos_lit(var).kind = VAR
    /\ neg_lit(var).kind = COMP
    /\ pos_lit(var).idx = var.idx
    /\ neg_lit(var).idx = -var.idx

\* var.literals == label: a tuple of two nodes compared with a label.  The
\* tuple does not compare with a VariableIdentifier, and
\* VariableIdentifier.__eq__ returns NotImplemented for a tuple, so the
\* comparison is False.
LiteralsEqualLabel(literals, label) == FALSE

\* Universe._assert_valid: whether every assertion passes.  idx is the
\* 0-based position stored in label_to_idx.
Universe_assert_valid ==
    /\ idx_offset > 0
    /\ Len(idx_to_data) = Cardinality(DOMAIN label_to_idx)
    /\ \A label \in DOMAIN label_to_idx :
          LET idx == label_to_idx[label] IN
          /\ idx < Len(idx_to_data)
          /\ LET var == idx_to_data[idx + 1]
             IN /\ var.idx = idx
                /\ LiteralsEqualLabel(var.literals, label)
                /\ Variable_assert_valid(var)

\* A call of universe._assert_valid().
AssertValid ==
    Lookup("_assert_valid", 0,
           IF Universe_assert_valid THEN NoVariable ELSE AssertionError)

NextValid ==
    \/ GetOrMake
    \/ Var
    \/ GetNextVar
    \/ AssertValid

SpecValid == InitUniverse /\ [][NextValid]_vars

\* C24: Universe._assert_valid() raises no assertion in any state reachable
\* from an empty universe by get_or_make / var / get_next_var calls.
C24_AssertValidPasses ==
    u_call.name = "_assert_valid" => u_ret # AssertionError

(***************************************************************************)
(* expression/node/cardinality.py: at_least_size;                          *)
(* expression/cardinality.py: AtLeastOp.size (specification SpecSize).     *)
(***************************************************************************)
\* An at_least_size that leaves the clause and cube operators uncounted.
at_least_size_LiteralsOnly(n, kk, cnf) ==
    IF kk <= 0 THEN 1
    ELSE IF kk = 1 THEN n + 1
    ELSE IF kk = n THEN n + 1
    ELSE IF kk > n THEN 1
    ELSE IF cnf THEN (n - kk + 1) * comb(n, n - kk + 1) + 1
    ELSE kk * comb(n, kk) + 1

\* at_least_size(n, k, as_cnf)
at_least_size(n, kk, cnf) ==
    IF kk <= 0 THEN 1
    ELSE IF kk = 1 THEN n + 1
    ELSE IF kk = n THEN n + 1
    ELSE IF kk > n THEN 1
    ELSE IF cnf
    THEN LET or_ops == n - kk + 1
         IN (or_ops + 1) * comb(n, or_ops) + 1
    ELSE (kk + 1) * comb(n, kk) + 1

\* AtLeastOp.size
AtLeastOp_size(kk, ns) ==
    LET a == at_least_size(Len(ns), kk, TRUE)
        b == at_least_size(Len(ns), kk, FALSE)
    IN IF a <= b THEN a ELSE b

\* at_least(k, *nodes, as_cnf) together with at_least_size(len(nodes), k, as_cnf).
CallAtLeastSize ==
    /\ op = "init"
    /\ op' = "at_least_size"
    /\ out' = at_least(k, nodes, as_cnf)
    /\ out_k' = at_least_size(Len(nodes), k, as_cnf)
    /\ UNCHANGED <<k, nodes, as_cnf, out_flag, out_nodes>>
    /\ UNCHANGED <<tseitin_vars, rest_vars>>

\* AtLeastOp(k, nodes).size
CallSize ==
    /\ op = "init"
    /\ op' = "size"
    /\ out_k' = AtLeastOp_size(k, nodes)
    /\ UNCHANGED <<k, nodes, as_cnf, out, out_flag, out_nodes>>
    /\ UNCHANGED <<tseitin_vars, rest_vars>>

NextSize ==
    \/ CallAtLeastSize
    \/ CallSize

SpecSize == InitCard /\ [][NextSize]_vars

(***************************************************************************)
(* Properties of the size estimates.                                       *)
(***************************************************************************)
\* Tree size: 1 per atom, 1 + the sizes of the operands per operator.
RECURSIVE TreeSize(_), SumSizes(_)
TreeSize(n) == IF n.kind \in NODE_ATOMS THEN 1 ELSE 1 + SumSizes(n.xs)
SumSizes(xs) == IF xs = <<>> THEN 0 ELSE TreeSize(Head(xs)) + SumSizes(Tail(xs))

\* C25: for every n >= 0, every k and both forms, at_least_size(n, k, as_cnf)
\* is an upper bound on the tree size of at_least(k, x1..xn, as_cnf), and
\* AtLeastOp.size is the minimum of the CNF and the DNF estimate.
C25_SizeUpperBound ==
    /\ op = "at_least_size" => TreeSize(out) <= out_k
    /\ op = "size" =>
          /\ out_k <= at_least_size(Len(nodes), k, TRUE)
          /\ out_k <= at_least_size(Len(nodes), k, FALSE)
          /\ out_k \in {at_least_size(Len(nodes), k, TRUE),
                        at_least_size(Len(nodes), k, FALSE)}
          /\ \A cnf \in BOOLEAN : TreeSize(at_least(k, nodes, cnf)) <= at_least_size(Len(nodes), k, cnf)

C25_Witness ==
    /\ op = "at_least_size"
    /\ Len(nodes) = 4 /\ k = 2 /\ as_cnf
    /\ out.kind = OP_AND
    /\ TreeSize(out) = out_k

(***************************************************************************)
(* variable/identifier.py: standardize_name, VariableIdentifier;           *)
(* universe.py: Universe.var (specification SpecIdent).  A str is the      *)
(* tuple of its characters; a raw name is a str or a sequence of str.      *)
(***************************************************************************)
RawStr(chars) == [type |-> "str", value |-> chars]

RawSeq(strs) == [type |-> "seq", value |-> strs]

\* standardize_name: tuple(str(raw_name),) of a str is the tuple of its
\* characters; a sequence gives tuple(str(n) for n in raw_name).
standardize_name(raw_name) ==
    IF raw_name.type = "str"
    THEN [i \in 1..Len(raw_name.value) |-> <<raw_name.value[i]>>]
    ELSE raw_name.value

Reversed(s) == [i \in 1..Len(s) |-> s[Len(s) + 1 - i]]

\* VariableIdentifier.qual_name: ".".join(reversed(self.names))
qual_name(id) == Join(<<".">>, Reversed(id.names))

\* VariableIdentifier.__str__
VariableIdentifier_str(id) ==
    IF id.indices # <<>>
    THEN qual_name(id) \o <<"[">>
            \o Join(<<",">>, [i \in 1..Len(id.indices) |-> Str(id.indices[i])])
            \o <<"]">>
    ELSE qual_name(id)

\* VariableIdentifier.__eq__ for two identifiers.
VariableIdentifier_eq(a, b) == <<a.names, a.indices>> = <<b.names, b.indices>>

\* Universe.get_or_make(label) on the universe u: (universe after, variable).
Universe_get_or_make(u, label) ==
    IF \E j \in 1..Len(u.idx_to_data) : VariableIdentifier_eq(u.idx_to_data[j].label, label)
    THEN [u |-> u,
          var |-> u.idx_to_data[CHOOSE j \in 1..Len(u.idx_to_data) :
                                    VariableIdentifier_eq(u.idx_to_data[j].label, label)]]
    ELSE LET var == Variable(label, u.idx_offset + Len(u.idx_to_data))
         IN [u |-> [idx_to_data |-> Append(u.idx_to_data, var), idx_offset |-> u.idx_offset],
             var |-> var]

\* Universe.var(prefix) for a str prefix; get_or_make(VariableIdentifier(names))
\* for a sequence of names.
Universe_var(u, raw_name) ==
    Universe_get_or_make(u, VariableIdentifier(standardize_name(raw_name), <<>>))

IdChars == {"a", "b"}

\* The strings of 1..IdLen characters.
IdStrings == UNION {[1..n -> IdChars] : n \in 1..IdLen}

\* The raw names: a str, or a sequence of 1..IdLen one-character names.
RawNames ==
    {RawStr(chars) : chars \in IdStrings}
        \cup {RawSeq(strs) : strs \in UNION {[1..n -> {<<c>> : c \in IdChars}] : n \in 1..IdLen}}

InitIdent ==
    /\ fn = "init"
    /\ \E p \in RawNames, q \in RawNames, offset \in 1..MaxOffset :
          fn_args = [p |-> p, q |-> q, idx_offset |-> offset]
    /\ fn_result = <<>>
    /\ EncodersIdle /\ UniverseIdle /\ ScopeIdle

\* u = Universe(); a = u.var(p); b = u.var(q)
CallVarVar ==
    LET first == Universe_var([idx_to_data |-> <<>>, idx_offset |-> fn_args.idx_offset],
                              fn_args.p)
        second == Universe_var(first.u, fn_args.q)
    IN PureCall("var_var", [a |-> first.var, b |-> second.var,
                            text |-> VariableIdentifier_str(first.var.label)])

NextIdent == CallVarVar

SpecIdent == InitIdent /\ [][NextIdent]_vars

(***************************************************************************)
(* Properties of identifiers.                                              *)
(***************************************************************************)
\* The text form of a raw name: the string itself, or its names dotted,
\* outermost first.
TextForm(raw_name) ==
    IF raw_name.type = "str" THEN raw_name.value
    ELSE Join(<<".">>, Reversed(raw_name.value))

\* C26: a VariableIdentifier built from a single string name has
\* names == (name,) for names of any length and its text form is the name;
\* var(p) and var(q) for different strings, or for a string and a dotted
\* identifier with different text forms, never denote the same variable.
C26_StringNames ==
    fn = "var_var" =>
        /\ fn_args.p.type = "str" =>
              /\ fn_result.a.label.names = <<fn_args.p.value>>
              /\ fn_result.text = fn_args.p.value
        /\ (/\ "str" \in {fn_args.p.type, fn_args.q.type}
            /\ TextForm(fn_args.p) # TextForm(fn_args.q))
              => fn_result.a # fn_result.b

(***************************************************************************)
(* expression/simple.py: SimpleExpression.to_atom (specification           *)
(* SpecToAtom, over the expressions of InitSimple).                        *)
(***************************************************************************)
\* The outcome of raise ValueError(...).
ValueError == SimpleExpression(NoNode, 0)

\* SimpleExpression.to_atom.  The third test is
\* self.node.kind() == exprnode.Zero, the kind tag against the node Zero.
SimpleExpression_to_atom(self) ==
    IF self.node.kind \in NODE_LITERALS THEN self
    ELSE IF self.node.kind = ONE THEN SimpleExpression(One, self.oid + 1)
    ELSE IF KindEqualsNode(self.node.kind, Zero) THEN SimpleExpression(Zero, self.oid + 1)
    ELSE ValueError

CallToAtom == PureCall("to_atom", SimpleExpression_to_atom(fn_args))

NextToAtom == CallToAtom

SpecToAtom == InitSimple /\ [][NextToAtom]_vars

\* C27: to_atom returns an expression over the same node whenever the node
\* is a literal, One or Zero, and raises ValueError only when the node is an
\* operator.
C27_ToAtom ==
    fn = "to_atom" =>
        /\ fn_args.node.kind \in NODE_ATOMS =>
              /\ fn_result # ValueError
              /\ fn_result.node = fn_args.node
        /\ fn_result = ValueError => fn_args.node.kind \in NODE_OPS

(***************************************************************************)
(* expression/cardinality.py: AtLeastOp.to_atom with the two properties it *)
(* reads (specification SpecAtLeastAtom, over the operand lists of InitOp).*)
(***************************************************************************)
\* AtLeastOp.to_atom: the node of the returned SimpleExpression, NoNode for
\* raise ValueError.
AtLeastOp_to_atom(kk, ns) ==
    IF is_tautology(kk, ns) THEN One
    ELSE IF is_contradiction(kk, ns) THEN Zero
    ELSE NoNode

\* One AtLeastOp(k, nodes): its two properties are read, then to_atom is called.
CallAtLeastToAtom ==
    /\ op = "init"
    /\ op' = "to_atom"
    /\ fn_result' = [is_tautology |-> is_tautology(k, nodes),
                     is_contradiction |-> is_contradiction(k, nodes)]
    /\ out' = AtLeastOp_to_atom(k, nodes)
    /\ UNCHANGED <<k, nodes, as_cnf, out_flag, out_k, out_nodes>>
    /\ UNCHANGED <<tseitin_vars, universe_vars, scope_vars, fn, fn_args>>

NextAtLeastAtom == CallAtLeastToAtom

SpecAtLeastAtom == InitOp /\ [][NextAtLeastAtom]_vars

\* C28: for every AtLeastOp(k, operands), is_tautology and is_contradiction
\* are never both true, and to_atom returns One only for expressions true
\* under every assignment and Zero only for expressions false under every
\* assignment.
C28_ConstantsExclusive ==
    op = "to_atom" =>
        /\ ~(fn_result.is_tautology /\ fn_result.is_contradiction)
        /\ out = One =>
              \A asg \in Assignments(OpVars) : NumTrue(nodes, asg) >= k
        /\ out = Zero =>
              \A asg \in Assignments(OpVars) : NumTrue(nodes, asg) < k

(***************************************************************************)
(* expr.py: a failed entry of an assumption scope (specification           *)
(* SpecScope).                                                             *)
(***************************************************************************)
\* C29: when entering an assumption scope fails with the non-literal error,
\* the assumption set is exactly what it was before the attempted entry.
C29_FailedEntryKeepsAssumptions ==
    (s_call.name = "enter" /\ s_call.raised) => ASSUMPTIONS = s_call.before

(***************************************************************************)
(* expression/node/transform.py: termination of the loop of tseitin        *)
(* (specification SpecTseitinLive).  tseitin runs in one thread that takes *)
(* the next pass of `while stack` whenever there is one to take: weak      *)
(* fairness of the steps of the call.                                      *)
(***************************************************************************)
\* tseitin is handed an atom, or an expression made by a builder call over
\* an expression x and an expression that contains x: x is reached from the
\* root along several paths.
InitTseitinShared ==
    /\ \/ node \in TsAtoms
       \/ \E x \in OpsOver(TsAtoms), c \in TsAtoms :
             \E inner \in NODE_OPS \ {OP_NOT, OP_ITE}, kind \in NODE_OPS :
                 \E a \in Arity(kind) :
                     \E args \in [1..a -> {x, Build(inner, <<x, c>>)}] :
                         node = Build(kind, args)
    /\ stack = <<>> /\ lit_for = <<>> /\ constraints = <<>>
    /\ n_new_vars = 0 /\ top_lit = NoNode /\ pc = "start"
    /\ k = 0 /\ nodes = <<>> /\ as_cnf = FALSE /\ op = "idle" /\ NoOutput
    /\ RestIdle

SpecTseitinLive == InitTseitinShared /\ [][NextTseitin]_vars /\ WF_vars(NextTseitin)

\* C30: the explicit-stack loop of tseitin terminates: the stack eventually
\* empties, and on exit every distinct operator node of the DAG, root
\* included, has an entry in lit_for.
C30_TseitinTerminates ==
    <>(/\ pc = "done"
       /\ stack = <<>>
       /\ OpSubnodes(node) \subseteq DOMAIN lit_for)

\* A subnode that lies twice on the stack before it is first processed.
C30_Witness ==
    /\ pc = "loop"
    /\ \E i, j \in 1..Len(stack) :
          /\ i < j
          /\ stack[i].curr = stack[j].curr
          /\ ~stack[i].visited /\ ~stack[j].visited
          /\ ~InLitFor(stack[i].curr, lit_for)

====
